---------------------------- MODULE Spec2Model ----------------------------
(***************************************************************************)
(* A model of ambermeta's protocol layer (src/ambermeta/protocol.py): the  *)
(* per-stage and cross-stage validator, the totals, the protocol assembler *)
(* (auto_discover, manifest and directory discovery, restart linking) and  *)
(* the full-view serializer and the methods view, and of the streaming     *)
(* statistics of the log extractor (legacy_extractors/mdout.py).           *)
(*                                                                         *)
(* Numbers.  Every quantity the code holds in picoseconds (times, gaps,    *)
(* timesteps, durations) is an integer count of micro-picoseconds: 1 ps is *)
(* PS units, and the code's 1e-6 ps is 1 unit.  All inputs lie on that     *)
(* grid, so the code's +, -, abs, max and comparisons are exact here;      *)
(* IEEE rounding of inputs off the grid is outside the model.              *)
(*                                                                         *)
(* Python values.  An attribute that may be None, a number or a string is  *)
(* a record [t, v]: t is "none", "num" or "str".                           *)
(***************************************************************************)
EXTENDS Integers, Sequences, FiniteSets, TLC

VARIABLES
    stages,     \* SimulationProtocol.stages: a sequence of SimulationStage
    runs,       \* the cross_stage argument of every validate() call made so far
    first,      \* the stages as they were when the first validate() returned
    tot,        \* the last results of totals(): of a protocol and of its two parts
    build,      \* the assembler's input and output (auto_discover, CLI plan)
    ser,        \* the serializer's heap, call stack and result
    stats,      \* a StreamingStats object, with the samples added to it so far
    log,        \* parse_mdout at work: the lines, the position, the flag, the frames
    tui         \* the TUI's ProtocolState: stages, topology, undo and redo stacks

vars == <<stages, runs, first, tot, build, ser, stats, log, tui>>

-----------------------------------------------------------------------------
(* Bounds of the model *)

MaxStages == 2
MaxRuns == 2
MaxFiles == 3
MaxNodes == 2
RecursionLimit == 6
MaxSize == 4
MaxSamples == 3
MaxLines == 4
MaxAtoms == 5
MaxCalls == 4

-----------------------------------------------------------------------------
(* Python values *)

NoneV == [t |-> "none", v |-> 0]
Num(n) == [t |-> "num", v |-> n]
Str(n) == [t |-> "str", v |-> n]

IsNone(x) == x.t = "none"
IsNum(x) == x.t = "num"

\* bool(x): None and 0 are falsy, a non-zero number and a non-empty string truthy
Truthy(x) == (x.t = "num" /\ x.v # 0) \/ x.t = "str"

Abs(n) == IF n < 0 THEN -n ELSE n
Max(a, b) == IF a >= b THEN a ELSE b

PS == 1000 * 1000

Range(s) == {s[i] : i \in DOMAIN s}

-----------------------------------------------------------------------------
(* Strings.  A stage name, a file name and a path are sequences of         *)
(* character codes ("p01.nc" is <<112, 48, 49, 46, 110, 99>>); a role is a *)
(* TLA+ string, because the code only compares roles with each other.      *)

NoPath == [t |-> "none", v |-> <<>>]
PathV(p) == [t |-> "str", v |-> p]
NoRole == [t |-> "none", v |-> ""]
Role(r) == [t |-> "str", v |-> r]

\* bool(x) of an optional path or name, and of an optional role
HasText(x) == x.t = "str" /\ x.v # <<>>
HasRole(x) == x.t = "str" /\ x.v # ""

IsDigit(c) == c >= 48 /\ c <= 57

\* str.lower() on ASCII
str_lower(s) == [i \in DOMAIN s |-> IF s[i] >= 65 /\ s[i] <= 90 THEN s[i] + 32 ELSE s[i]]

\* `a in b`
IsSubstring(a, b) ==
    \E i \in 0..(Len(b) - Len(a)) : SubSeq(b, i + 1, i + Len(a)) = a

\* b.startswith(a)
StartsWith(b, a) == Len(a) <= Len(b) /\ SubSeq(b, 1, Len(a)) = a

\* a < b for str: at the first position where they differ the code of a is
\* the smaller, or a is a proper prefix of b
LexLess(a, b) ==
    \E i \in 1..Len(b) :
        /\ i <= Len(a) + 1
        /\ \A j \in 1..(i - 1) : a[j] = b[j]
        /\ (i = Len(a) + 1 \/ a[i] < b[i])

\* s.rfind(c) + 1: the last position of the code c, 0 when there is none
LastIndex(s, c) ==
    LET at == {i \in DOMAIN s : s[i] = c}
    IN  IF at = {} THEN 0 ELSE CHOOSE i \in at : \A j \in at : j <= i

\* int(digits)
RECURSIVE int(_)
int(digits) ==
    IF digits = <<>> THEN 0
    ELSE 10 * int(SubSeq(digits, 1, Len(digits) - 1)) + (digits[Len(digits)] - 48)

\* The length of the run of digits that starts at position i
RECURSIVE DigitRun(_, _)
DigitRun(s, i) ==
    IF i > Len(s) \/ ~IsDigit(s[i]) THEN 0 ELSE 1 + DigitRun(s, i + 1)

\* re.search(r'(\d{2,})', s): the leftmost run of two or more digits, taken to
\* its end; <<>> when there is no match
FirstNumber(s) ==
    LET at == {i \in DOMAIN s : DigitRun(s, i) >= 2}
    IN  IF at = {} THEN <<>>
        ELSE LET i == CHOOSE k \in at : \A j \in at : k <= j
             IN  SubSeq(s, i, i + DigitRun(s, i) - 1)

\* os.path.join(directory, name) for a relative name
join(directory, name) == directory \o <<47>> \o name

\* The final component of a path
basename(p) == SubSeq(p, LastIndex(p, 47) + 1, Len(p))

\* os.path.splitext(p)[1]: from the last dot of the final component, when a
\* character other than a dot stands before it in that component
splitext_ext(p) ==
    LET sep == LastIndex(p, 47)
        dot == LastIndex(p, 46)
    IN  IF dot > sep /\ \E k \in (sep + 1)..(dot - 1) : p[k] # 46
        THEN SubSeq(p, dot, Len(p)) ELSE <<>>

\* PurePath.suffix of a name: from its last dot, when that dot is neither its
\* first nor its last character
suffix(name) ==
    LET dot == LastIndex(name, 46)
    IN  IF dot > 1 /\ dot < Len(name) THEN SubSeq(name, dot, Len(name)) ELSE <<>>

\* Path(p).stem
stem_of(p) ==
    LET name == basename(p)
    IN  SubSeq(name, 1, Len(name) - Len(suffix(name)))

\* Path(p).with_suffix("").as_posix()
with_suffix_empty(p) == SubSeq(p, 1, Len(p) - Len(suffix(basename(p))))


-----------------------------------------------------------------------------
(* Records attached to a stage.  has = FALSE is an empty slot (None); a     *)
(* slot that is filled always carries its details, as every parser returns *)
(* them.  The fields are those of the metadata classes.                    *)

NoPrmtop == [has |-> FALSE, natom |-> NoneV]
NoInpcrd == [has |-> FALSE, natoms |-> 0, time |-> NoneV]
NoMdin   == [has |-> FALSE, length_steps |-> NoneV, dt |-> NoneV,
             coord_freq |-> NoneV, stage_role |-> NoRole]
NoMdout  == [has |-> FALSE, natoms |-> 0, nstlim |-> 0, dt |-> 0]
NoMdcrd  == [has |-> FALSE, n_atoms |-> 0, n_frames |-> 0, time_end |-> NoneV,
             avg_dt |-> NoneV, total_duration |-> 0]

Prmtop(natom) == [has |-> TRUE, natom |-> natom]
Inpcrd(natoms, time) == [has |-> TRUE, natoms |-> natoms, time |-> time]
Mdin(length_steps, dt) ==
    [has |-> TRUE, length_steps |-> length_steps, dt |-> dt,
     coord_freq |-> Num(0), stage_role |-> Role("Generic MD Stage")]
Mdout(natoms, nstlim, dt) ==
    [has |-> TRUE, natoms |-> natoms, nstlim |-> nstlim, dt |-> dt]
Mdcrd(n_atoms, time_end, avg_dt) ==
    [has |-> TRUE, n_atoms |-> n_atoms, n_frames |-> 0, time_end |-> time_end,
     avg_dt |-> avg_dt, total_duration |-> 0]

\* SimulationStage(name=...): every other field at its dataclass default
NewStage(name) ==
    [name |-> name, stage_role |-> NoRole,
     expected_gap_ps |-> NoneV, gap_tolerance_ps |-> NoneV,
     observed_gap_ps |-> NoneV,
     prmtop |-> NoPrmtop, inpcrd |-> NoInpcrd, mdin |-> NoMdin,
     mdout |-> NoMdout, mdcrd |-> NoMdcrd,
     restart_path |-> NoPath, validation |-> <<>>, continuity |-> <<>>]

\* A note: the message's fixed text, the labels and the numbers put into it
\* (stage names apart, which ContinuityNote adds)
Note(msg, labels, nums) ==
    [msg |-> msg, labels |-> labels, nums |-> nums, names |-> <<>>]

-----------------------------------------------------------------------------
(* SimulationStage.validate *)

\* getattr(details, "n_atoms", None) for each metadata class: InpcrdMetadata
\* and MdoutMetadata define the property n_atoms (= natoms), TrajectoryMetadata
\* the field n_atoms; PrmtopMetadata defines natom only, so the lookup gives
\* the default None.
n_atoms_prmtop(rec) == NoneV
n_atoms_inpcrd(rec) == Num(rec.natoms)
n_atoms_mdout(rec) == Num(rec.natoms)
n_atoms_mdcrd(rec) == Num(rec.n_atoms)

\* The (label, count) pairs _validate_atoms collects, in its order
AtomPairs(s) ==
    (IF s.prmtop.has /\ Truthy(n_atoms_prmtop(s.prmtop))
        THEN << <<"prmtop", n_atoms_prmtop(s.prmtop).v>> >> ELSE <<>>)
    \o (IF s.inpcrd.has /\ Truthy(n_atoms_inpcrd(s.inpcrd))
        THEN << <<"inpcrd", n_atoms_inpcrd(s.inpcrd).v>> >> ELSE <<>>)
    \o (IF s.mdout.has /\ Truthy(n_atoms_mdout(s.mdout))
        THEN << <<"mdout", n_atoms_mdout(s.mdout).v>> >> ELSE <<>>)
    \o (IF s.mdcrd.has /\ Truthy(n_atoms_mdcrd(s.mdcrd))
        THEN << <<"mdcrd", n_atoms_mdcrd(s.mdcrd).v>> >> ELSE <<>>)

Firsts(pairs) == [i \in DOMAIN pairs |-> pairs[i][1]]
Seconds(pairs) == [i \in DOMAIN pairs |-> pairs[i][2]]

_validate_atoms(s) ==
    LET pairs == AtomPairs(s)
        labels == Firsts(pairs)
        counts == Seconds(pairs)
    IN  IF counts = <<>>
        THEN << Note("No atom counts available for validation.", <<>>, <<>>) >>
        ELSE IF Cardinality(Range(counts)) > 1
        THEN << Note("Atom count mismatch across", labels, counts) >>
        ELSE <<>>

\* Collects the box sources and returns no note, whatever they are
_validate_box(s) == <<>>

\* One of the dictionaries of _validate_timing, as its (label, value) items in
\* insertion order: "mdin" before "mdout"
TimingItems(s, fromMdin, fromMdout) ==
    (IF s.mdin.has /\ fromMdin.ok THEN << <<"mdin", fromMdin.v>> >> ELSE <<>>)
    \o (IF s.mdout.has /\ fromMdout.ok THEN << <<"mdout", fromMdout.v>> >> ELSE <<>>)

step_counts(s) ==
    TimingItems(s, [ok |-> Truthy(s.mdin.length_steps), v |-> s.mdin.length_steps.v],
                   [ok |-> s.mdout.nstlim # 0, v |-> s.mdout.nstlim])
timesteps(s) ==
    TimingItems(s, [ok |-> Truthy(s.mdin.dt), v |-> s.mdin.dt.v],
                   [ok |-> s.mdout.dt # 0, v |-> s.mdout.dt])
expected_durations(s) ==
    TimingItems(s, [ok |-> Truthy(s.mdin.length_steps) /\ Truthy(s.mdin.dt),
                    v |-> s.mdin.length_steps.v * s.mdin.dt.v],
                   [ok |-> s.mdout.nstlim # 0 /\ s.mdout.dt # 0,
                    v |-> s.mdout.nstlim * s.mdout.dt])

\* total_duration when truthy, else avg_dt * (n_frames - 1); None otherwise
mdcrd_duration(s) ==
    IF ~s.mdcrd.has THEN NoneV
    ELSE IF s.mdcrd.total_duration # 0 THEN Num(s.mdcrd.total_duration)
    ELSE IF Truthy(s.mdcrd.avg_dt) /\ s.mdcrd.n_frames > 1
         THEN Num(s.mdcrd.avg_dt.v * (s.mdcrd.n_frames - 1))
    ELSE NoneV

\* _compare: every later item that differs from the first one gives a note
_compare(items, description) ==
    IF Len(items) < 2 THEN <<>>
    ELSE IF items[1][2] # items[2][2]
         THEN << Note(description, <<items[1][1], items[2][1]>>,
                      <<items[1][2], items[2][2]>>) >>
         ELSE <<>>

LookupItem(items, label) ==
    IF \E i \in DOMAIN items : items[i][1] = label
    THEN Num((CHOOSE p \in Range(items) : p[1] = label)[2])
    ELSE NoneV

default_tolerance == PS \div 1000000

DurationNote(s, item) ==
    LET t1 == IF IsNum(s.mdcrd.avg_dt)
              THEN Max(default_tolerance, s.mdcrd.avg_dt.v) ELSE default_tolerance
        dt == LookupItem(timesteps(s), item[1])
        tolerance == IF IsNum(dt) THEN Max(t1, dt.v) ELSE t1
    IN  IF Abs(item[2] - mdcrd_duration(s).v) > tolerance
        THEN << Note("Trajectory duration from mdcrd differs from expected duration from",
                     <<item[1]>>, <<mdcrd_duration(s).v, item[2]>>) >>
        ELSE <<>>

RECURSIVE DurationNotes(_, _)
DurationNotes(s, items) ==
    IF items = <<>> THEN <<>>
    ELSE DurationNote(s, Head(items)) \o DurationNotes(s, Tail(items))

_validate_timing(s) ==
    _compare(step_counts(s), "Step count differs between")
    \o _compare(timesteps(s), "Timestep differs between")
    \o _compare(expected_durations(s), "Simulation duration differs between")
    \o (IF Truthy(mdcrd_duration(s)) /\ expected_durations(s) # <<>>
        THEN DurationNotes(s, expected_durations(s)) ELSE <<>>)

\* MdoutMetadata has no attribute ntwx: getattr(details, "ntwx", None) is None,
\* and `base[1] and val and ...` is then never true
mdout_ntwx(rec) == NoneV

_validate_sampling(s) ==
    IF s.mdin.has /\ s.mdout.has
       /\ Truthy(s.mdin.coord_freq) /\ Truthy(mdout_ntwx(s.mdout))
       /\ s.mdin.coord_freq # mdout_ntwx(s.mdout)
    THEN << Note("Coordinate write frequency differs between", <<"mdin", "mdout">>,
                 <<s.mdin.coord_freq.v>>) >>
    ELSE <<>>

\* validate(): four extends of self.validation; nothing is cleared first
StageValidate(s) ==
    [s EXCEPT !.validation =
        @ \o _validate_atoms(s) \o _validate_box(s)
          \o _validate_timing(s) \o _validate_sampling(s)]

_add_continuity_note(s, note) ==
    [s EXCEPT !.continuity = Append(@, note), !.validation = Append(@, note)]

-----------------------------------------------------------------------------
(* SimulationProtocol._check_continuity, for one pair (prev, current) *)

MissingNote(prev, current) ==
    [msg |-> "INFO: Cannot verify continuity between (missing)",
     labels |-> (IF ~prev.mdcrd.has THEN <<"mdcrd">> ELSE <<>>)
                \o (IF ~current.inpcrd.has THEN <<"inpcrd">> ELSE <<>>),
     nums |-> <<>>,
     names |-> <<prev.name, current.name>>]

\* max(float(prior_dt) * 1e-6, 1e-6) when avg_dt is a number, else 1e-6.
\* |gap| is a whole number of units, so |gap| <= prior_dt * 1e-6 exactly when
\* |gap| <= the floor of it.
\* Mutants of CollapseTolerance: the frame interval ignored; the frame
\* interval taken whole, without the factor 1e-6
CollapseTolerance_NoInterval(prev) == default_tolerance
CollapseTolerance_Unscaled(prev) ==
    IF IsNum(prev.mdcrd.avg_dt)
    THEN Max(prev.mdcrd.avg_dt.v, default_tolerance)
    ELSE default_tolerance

CollapseTolerance(prev) ==
    IF IsNum(prev.mdcrd.avg_dt)
    THEN Max(prev.mdcrd.avg_dt.v \div 1000000, default_tolerance)
    ELSE default_tolerance

\* gap = start_time - end_time, set to 0 when no expectation is stated and
\* abs(gap) <= tolerance
ObservedGap(prev, current) ==
    LET gap == current.inpcrd.time.v - prev.mdcrd.time_end.v
    IN  IF IsNone(current.expected_gap_ps) /\ Abs(gap) <= CollapseTolerance(prev)
        THEN 0 ELSE gap

\* The notes that follow `current.observed_gap_ps = gap`, in the code's order
GapNotes(current, gap) ==
    (IF gap < 0
     THEN << Note("Stage appears to overlap previous stage by", <<>>, <<Abs(gap)>>) >>
     ELSE IF gap > 0
     THEN << Note("Stage starts after previous ended.", <<>>, <<gap>>) >>
     ELSE <<>>)
    \o
    (IF ~IsNone(current.expected_gap_ps)
     THEN LET tolerance == IF Truthy(current.gap_tolerance_ps)
                           THEN current.gap_tolerance_ps.v ELSE 0
              lower == current.expected_gap_ps.v - tolerance
              upper == current.expected_gap_ps.v + tolerance
          IN  IF gap < lower
              THEN << Note("Observed gap is shorter than expected", <<>>,
                           <<gap, current.expected_gap_ps.v>>) >>
              ELSE IF gap > upper
              THEN << Note("Observed gap exceeds expected", <<>>,
                           <<gap, current.expected_gap_ps.v>>) >>
              ELSE << Note("Observed gap is within expected window", <<>>,
                           <<gap, current.expected_gap_ps.v, tolerance>>) >>
     ELSE IF gap # 0
     THEN << Note("Gap detected without stated expectation; verify continuity.",
                  <<>>, <<>>) >>
     ELSE <<>>)

RECURSIVE AddNotes(_, _)
AddNotes(s, notes) ==
    IF notes = <<>> THEN s
    ELSE AddNotes(_add_continuity_note(s, Head(notes)), Tail(notes))

\* One iteration of the loop: what `current` becomes
Continuity(prev, current) ==
    IF ~prev.mdcrd.has \/ ~current.inpcrd.has
    THEN _add_continuity_note(current, MissingNote(prev, current))
    ELSE IF IsNone(prev.mdcrd.time_end) \/ IsNone(current.inpcrd.time)
    THEN IF ~IsNone(current.expected_gap_ps)
         THEN _add_continuity_note(current,
                Note("Expected gap could not be verified because timing metadata is missing.",
                     <<>>, <<>>))
         ELSE current
    ELSE LET gap == ObservedGap(prev, current)
         IN  AddNotes([current EXCEPT !.observed_gap_ps = Num(gap)],
                      GapNotes(current, gap))

\* for prev, current in zip(self.stages, self.stages[1:]): an iteration changes
\* `current` only and reads of `prev` its name and trajectory, which no
\* iteration changes
_check_continuity(ss) ==
    [i \in DOMAIN ss |-> IF i = 1 THEN ss[i] ELSE Continuity(ss[i - 1], ss[i])]

\* SimulationProtocol.validate(cross_stage)
ProtocolValidate(ss, cross_stage) ==
    LET each == [i \in DOMAIN ss |-> StageValidate(ss[i])]
    IN  IF cross_stage THEN _check_continuity(each) ELSE each

-----------------------------------------------------------------------------
(* SimulationProtocol.totals *)

\* `getattr(details, name, 0) or 0`: None, 0 and "" become 0
OrZero(x) == IF Truthy(x) THEN x ELSE Num(0)

\* What one stage adds to (total_steps, total_time)
StageTotals(s) ==
    LET length == OrZero(s.mdin.length_steps)
        dt == OrZero(s.mdin.dt)
    IN  IF s.mdin.has /\ IsNum(length) /\ IsNum(dt)
        THEN [steps |-> length.v, time_ps |-> length.v * dt.v]
        ELSE [steps |-> 0, time_ps |-> 0]

\* Mutant of totals: `=` written for `+=`, so the last stage's values stand
totals_Assigned(ss) ==
    IF ss = <<>> THEN [steps |-> 0, time_ps |-> 0] ELSE StageTotals(ss[Len(ss)])

RECURSIVE totals(_)
totals(ss) ==
    IF ss = <<>> THEN [steps |-> 0, time_ps |-> 0]
    ELSE LET n == Len(ss)
             before == totals(SubSeq(ss, 1, n - 1))
             add == StageTotals(ss[n])
         IN  [steps |-> before.steps + add.steps,
              time_ps |-> before.time_ps + add.time_ps]

-----------------------------------------------------------------------------
(* The directory and the parsers.  fs.listing is os.listdir(fs.directory)  *)
(* in the order the system gives it, regular files only; a file is its     *)
(* name and the record its parser returns for it.  No two files of a       *)
(* directory have the same name.                                           *)

File(name, data) == [name |-> name, data |-> data]

\* os.path.exists(path)
exists(fs, path) ==
    \E i \in DOMAIN fs.listing : join(fs.directory, fs.listing[i].name) = path

\* XParser(path).parse() for a path that exists
parse(fs, path) ==
    LET i == CHOOSE k \in DOMAIN fs.listing : join(fs.directory, fs.listing[k].name) = path
    IN  fs.listing[i].data

-----------------------------------------------------------------------------
(* Manifests.  A manifest is a list of entries or a mapping from keys to   *)
(* entries, in the order it was written.  An entry has an optional name,   *)
(* an optional stage_role, the paths written at its top level and those    *)
(* under `files` (each a sequence of (kind, path or None) in the order of  *)
(* the keys), and the values under `gaps` and `gap`.                       *)

NoGap == [t |-> "none", v |-> 0, expected |-> NoneV, expected_ps |-> NoneV,
          tolerance |-> NoneV, tolerance_ps |-> NoneV]
GapNumber(n) == [NoGap EXCEPT !.t = "num", !.v = n]
GapRecord(expected, tolerance) ==
    [NoGap EXCEPT !.t = "dict", !.expected = expected, !.tolerance = tolerance]

Ref(kind, path) == [kind |-> kind, path |-> path]

Entry(name, stage_role, top, files, gaps) ==
    [name |-> name, stage_role |-> stage_role, top |-> top, files |-> files,
     gaps |-> gaps, gap |-> NoGap]

Item(key, entry) == [key |-> key, entry |-> entry]
NoManifest == [t |-> "none", items |-> <<>>]
ListManifest(entries) ==
    [t |-> "list", items |-> [i \in DOMAIN entries |-> Item(<<>>, entries[i])]]
DictManifest(items) == [t |-> "dict", items |-> items]

\* `a or b`
Or(a, b) == IF Truthy(a) THEN a ELSE b

\* `entry.get("gaps") or entry.get("gap")`: a number is falsy when it is 0;
\* a record under `gaps` has at least one key
GapOr(a, b) == IF a.t = "dict" \/ (a.t = "num" /\ a.v # 0) THEN a ELSE b

\* normalized.setdefault("name", name) for a mapping, dict(entry) for a list
_normalize_manifest(manifest) ==
    [i \in DOMAIN manifest.items |->
        LET item == manifest.items[i]
        IN  IF manifest.t = "dict" /\ item.entry.name.t = "none"
            THEN [item.entry EXCEPT !.name = PathV(item.key)]
            ELSE item.entry]

\* paths.setdefault(kind, path) for every (kind, path) of `files` whose path is
\* not None
RECURSIVE setdefaults(_, _)
setdefaults(paths, files) ==
    IF files = <<>> THEN paths
    ELSE LET f == Head(files)
             absent == \A i \in DOMAIN paths : paths[i].kind # f.kind
         IN  setdefaults(IF f.path.t # "none" /\ absent THEN Append(paths, f) ELSE paths,
                         Tail(files))

\* `resolved`: the paths that are not None, joined to the directory
Joined(given, fs) ==
    [i \in DOMAIN given |-> Ref(given[i].kind, join(fs.directory, given[i].path.v))]

resolved(entry, fs) ==
    Joined(SelectSeq(setdefaults(entry.top, entry.files), LAMBDA r : r.path.t # "none"), fs)

\* r.get(kind) of that mapping r, or None
resolved_get(r, kind) ==
    IF \A i \in DOMAIN r : r[i].kind # kind THEN NoPath
    ELSE PathV(r[CHOOSE i \in DOMAIN r : r[i].kind = kind].path)

\* One line of the error message: stage '<name>', <kind>: <path>
MissingLine(name, kind, path) == [name |-> name, kind |-> kind, path |-> path]

\* The lines one entry adds to `missing`
MissingLines(name, gone) ==
    [i \in DOMAIN gone |-> MissingLine(name, gone[i].kind, gone[i].path)]

EntryMissing(entry, fs) ==
    MissingLines(entry.name.v, SelectSeq(resolved(entry, fs), LAMBDA x : ~exists(fs, x.path)))

RECURSIVE AllMissing(_, _)
AllMissing(entries, fs) ==
    IF entries = <<>> THEN <<>>
    ELSE EntryMissing(Head(entries), fs) \o AllMissing(Tail(entries), fs)

\* What a call raises: raised = "" when it returns
Returned == [raised |-> "", message |-> <<>>]
Raised(error, message) == [raised |-> error, message |-> message]

\* Mutant of Checked: the error raised at the first missing file
Checked_FirstOnly(entries, missing) ==
    IF \E i \in DOMAIN entries : ~HasText(entries[i].name)
    THEN Raised("ValueError", <<>>)
    ELSE IF missing # <<>> THEN Raised("FileNotFoundError", <<Head(missing)>>)
    ELSE Returned

\* What validate_manifest does with the entries and the lines collected: the
\* first entry without a name raises ValueError inside the loop;
\* FileNotFoundError is raised after the loop, with every line
Checked(entries, missing) ==
    IF \E i \in DOMAIN entries : ~HasText(entries[i].name)
    THEN Raised("ValueError", <<>>)
    ELSE IF missing # <<>> THEN Raised("FileNotFoundError", missing)
    ELSE Returned

validate_manifest(manifest, fs) ==
    Checked(_normalize_manifest(manifest), AllMissing(_normalize_manifest(manifest), fs))

-----------------------------------------------------------------------------
(* _manifest_to_stages *)

\* A note that quotes a path, a stem or a sequence base
PathNote(msg, path) == [msg |-> msg, labels |-> <<>>, nums |-> <<>>, names |-> <<path>>]

\* restart_files[key] for the first of (stage.name, stage.stage_role) that is a
\* key.  The keys of the mappings modelled are stage names, and no role is
\* spelled like one of them, so only the name can be a key.
restart_source(stage, restart_files) ==
    LET at == {i \in DOMAIN restart_files : restart_files[i].key = stage.name}
    IN  IF stage.name # <<>> /\ at # {}
        THEN PathV(restart_files[CHOOSE i \in at : TRUE].path) ELSE NoPath

\* stage.mdin = MdinParser(path).parse() and the role taken from the deck when
\* the stage has none
WithMdin(stage, data) ==
    LET inferred == data.stage_role
    IN  IF ~HasRole(stage.stage_role) /\ HasRole(inferred)
        THEN [stage EXCEPT !.mdin = data, !.stage_role = inferred,
                           !.validation = Append(@,
                               Note("INFO: stage_role inferred from mdin file",
                                    <<inferred.v>>, <<>>))]
        ELSE [stage EXCEPT !.mdin = data]

\* The five parser calls, in the code's order, for the paths `at` gives
\* (at[kind] is a path or None) and the paths parsed, in the order of the calls
WithFiles(stage, fs, at) ==
    LET s1 == IF at["prmtop"].t = "str"
              THEN [stage EXCEPT !.prmtop = parse(fs, at["prmtop"].v)] ELSE stage
        s2 == IF at["mdin"].t = "str" THEN WithMdin(s1, parse(fs, at["mdin"].v)) ELSE s1
        s3 == IF at["mdout"].t = "str"
              THEN [s2 EXCEPT !.mdout = parse(fs, at["mdout"].v)] ELSE s2
        s4 == IF at["mdcrd"].t = "str"
              THEN [s3 EXCEPT !.mdcrd = parse(fs, at["mdcrd"].v)] ELSE s3
    IN  IF at["inpcrd"].t = "str"
        THEN [s4 EXCEPT !.inpcrd = parse(fs, at["inpcrd"].v), !.restart_path = at["inpcrd"]]
        ELSE s4

ParserOrder == <<"prmtop", "mdin", "mdout", "mdcrd", "inpcrd">>

Parsed(at) ==
    LET called == SelectSeq(ParserOrder, LAMBDA k : at[k].t = "str")
    IN  [i \in DOMAIN called |-> at[called[i]].v]

\* Included without `if include_roles and not stage.stage_role: continue`
Included_RolelessKept(stage, include_roles, include_stems) ==
    /\ include_stems = {} \/ stage.name \in include_stems
    /\ include_roles = {}
       \/ ~HasRole(stage.stage_role) \/ stage.stage_role.v \in include_roles

\* The include_stems and include_roles filters (an empty set is "no filter")
Included(stage, include_roles, include_stems) ==
    /\ include_stems = {} \/ stage.name \in include_stems
    /\ include_roles = {}
       \/ (HasRole(stage.stage_role) /\ stage.stage_role.v \in include_roles)

\* The entry's gaps: a record gives expected and tolerance, each read with
\* `or` from its two spellings; a number gives expected
WithGaps(stage, entry) ==
    LET gap_info == GapOr(entry.gaps, entry.gap)
        expected == Or(gap_info.expected, gap_info.expected_ps)
        tolerance == Or(gap_info.tolerance, gap_info.tolerance_ps)
    IN  IF gap_info.t = "dict"
        THEN [stage EXCEPT
                !.expected_gap_ps = IF ~IsNone(expected) THEN expected ELSE @,
                !.gap_tolerance_ps = IF ~IsNone(tolerance) THEN tolerance ELSE @]
        ELSE IF gap_info.t = "num"
        THEN [stage EXCEPT !.expected_gap_ps = Num(gap_info.v)]
        ELSE stage

\* The restart restart_files names for the stage, taken when the entry gave no
\* inpcrd; linked tells whether it was
WithRestartFile(stage, fs, source, allowed) ==
    IF allowed /\ source.t = "str"
    THEN [stage |-> [stage EXCEPT !.inpcrd = parse(fs, source.v), !.restart_path = source],
          parsed |-> <<source.v>>]
    ELSE [stage |-> stage, parsed |-> <<>>]

\* The paths of the five kinds, at[kind] a path or None
PathsOf(r) == [k \in Range(ParserOrder) |-> resolved_get(r, k)]

\* One iteration of the loop over the entries, given the entry's paths: the
\* stage built, and the paths its parsers were called on
EntryStage(entry, at, made) ==
    [stage |-> WithGaps(made.stage, entry), parsed |-> Parsed(at) \o made.parsed]

EntryFiles(entry, fs, restart_files, at, stage) ==
    EntryStage(entry, at,
               WithRestartFile(stage, fs, restart_source(stage, restart_files),
                               at["inpcrd"].t = "none"))

StageOfPaths(entry, fs, restart_files, at) ==
    EntryFiles(entry, fs, restart_files, at,
               WithFiles([NewStage(entry.name.v) EXCEPT !.stage_role = entry.stage_role],
                         fs, at))

StageOfEntry(entry, fs, restart_files) ==
    StageOfPaths(entry, fs, restart_files, PathsOf(resolved(entry, fs)))

\* What building a protocol gives: an error, or the stages, with the paths
\* parsed on the way in either case
Built(outcome, ss, parsed) ==
    [raised |-> outcome.raised, message |-> outcome.message, stages |-> ss, parsed |-> parsed]

\* stages.append(stage) unless a filter says `continue`
Appended(before, made, kept) ==
    Built(Returned,
          IF kept THEN Append(before.stages, made.stage) ELSE before.stages,
          before.parsed \o made.parsed)

EntryAppended(before, made, include_roles, include_stems) ==
    Appended(before, made, Included(made.stage, include_roles, include_stems))

RECURSIVE EntriesToStages(_, _, _, _, _)
EntriesToStages(entries, fs, include_roles, include_stems, restart_files) ==
    IF entries = <<>> THEN Built(Returned, <<>>, <<>>)
    ELSE EntryAppended(EntriesToStages(SubSeq(entries, 1, Len(entries) - 1), fs,
                                       include_roles, include_stems, restart_files),
                       StageOfEntry(entries[Len(entries)], fs, restart_files),
                       include_roles, include_stems)

\* validate_manifest comes first: when it raises, no entry has been looked at
StagesIfChecked(checked, manifest, fs, include_roles, include_stems, restart_files) ==
    IF checked.raised # "" THEN Built(checked, <<>>, <<>>)
    ELSE EntriesToStages(_normalize_manifest(manifest), fs, include_roles,
                         include_stems, restart_files)

_manifest_to_stages(manifest, fs, include_roles, include_stems, restart_files) ==
    StagesIfChecked(validate_manifest(manifest, fs), manifest, fs, include_roles,
                    include_stems, restart_files)

-----------------------------------------------------------------------------
(* auto_detect_restart_chain and the loop that links what it finds *)

\* ext_map: .rst, .rst7, .ncrst, .restrt, .inpcrd
RestartExts ==
    { <<46, 114, 115, 116>>, <<46, 114, 115, 116, 55>>, <<46, 110, 99, 114, 115, 116>>,
      <<46, 114, 101, 115, 116, 114, 116>>, <<46, 105, 110, 112, 99, 114, 100>> }

\* restart_candidates: (full_path, data), in the order of the listing
Candidates(files, fs) ==
    [i \in DOMAIN files |->
        [path |-> join(fs.directory, files[i].name), data |-> files[i].data]]

restart_candidates(fs) ==
    Candidates(SelectSeq(fs.listing,
                         LAMBDA f : str_lower(splitext_ext(f.name)) \in RestartExts), fs)

\* name.replace("/", "_")
replace_slash(name) == [i \in DOMAIN name |-> IF name[i] = 47 THEN 95 ELSE name[i]]

\* Whether the candidate is passed over for its atom count
AtomsDiffer(stage, rst) ==
    LET target_atoms == IF stage.prmtop.has THEN n_atoms_prmtop(stage.prmtop) ELSE NoneV
        rst_atoms == n_atoms_inpcrd(rst.data)
    IN  Truthy(target_atoms) /\ Truthy(rst_atoms) /\ target_atoms # rst_atoms

\* The points for the names: the previous stage's name in the restart's stem,
\* or the stem in the name
NameScore(prev_name, rst_stem) ==
    IF IsSubstring(prev_name, rst_stem) \/ IsSubstring(rst_stem, prev_name) THEN 5 ELSE 0

\* The points for the numbers: the first number of the stage's name and of the
\* restart's stem
NumberScore(stage_match, rst_match) ==
    IF stage_match # <<>> /\ rst_match # <<>>
    THEN IF int(rst_match) = int(stage_match) - 1 THEN 10
         ELSE IF int(rst_match) = int(stage_match) THEN 3 ELSE 0
    ELSE 0

\* The points for the times: abs(prev_end - rst_time) < 0.1
TimeScore(prev, rst) ==
    IF prev.mdcrd.has /\ ~IsNone(prev.mdcrd.time_end) /\ ~IsNone(rst.data.time)
       /\ Abs(prev.mdcrd.time_end.v - rst.data.time.v) < PS \div 10
    THEN 20 ELSE 0

\* The score of candidate rst for stage i of ss
CandidateScore(ss, i, rst) ==
    (IF i > 1 THEN NameScore(replace_slash(ss[i - 1].name), stem_of(rst.path)) ELSE 0)
    + NumberScore(FirstNumber(replace_slash(ss[i].name)), FirstNumber(stem_of(rst.path)))
    + (IF i > 1 THEN TimeScore(ss[i - 1], rst) ELSE 0)

\* best_match after the candidates: score 0 stands for None, as a match that
\* is kept has a positive score
NoMatch == [path |-> <<>>, score |-> 0]

\* best_match after one more candidate with that score
Better(best, stage, rst, score) ==
    IF ~AtomsDiffer(stage, rst) /\ score > 0 /\ (best.score = 0 \/ score > best.score)
    THEN [path |-> rst.path, score |-> score] ELSE best

RECURSIVE BestMatch(_, _, _, _)
BestMatch(ss, i, candidates, best) ==
    IF candidates = <<>> THEN best
    ELSE BestMatch(ss, i, Tail(candidates),
                   Better(best, ss[i], Head(candidates),
                          CandidateScore(ss, i, Head(candidates))))

\* best_match[1] >= 5.0
MinimumConfidence == 5

\* The stages that get an assignment: those without a restart whose best match
\* is good enough
Matched(ss, best) ==
    SelectSeq([i \in DOMAIN ss |-> i],
              LAMBDA i : ~HasText(ss[i].restart_path) /\ best[i].score >= MinimumConfidence)

\* restart_mapping, as the (name, path) assignments in the order made
Assigned(ss, best, matched) ==
    [k \in DOMAIN matched |-> [name |-> ss[matched[k]].name, path |-> best[matched[k]].path]]

RestartMapping(ss, best) == Assigned(ss, best, Matched(ss, best))

BestMatches(ss, candidates) ==
    [i \in DOMAIN ss |-> BestMatch(ss, i, candidates, NoMatch)]

auto_detect_restart_chain(ss, fs) ==
    RestartMapping(ss, BestMatches(ss, restart_candidates(fs)))

\* mapping.get(name): the last assignment to the key wins
mapping_get(mapping, name) ==
    IF \A k \in DOMAIN mapping : mapping[k].name # name THEN NoPath
    ELSE PathV(mapping[CHOOSE k \in DOMAIN mapping :
                          /\ mapping[k].name = name
                          /\ \A j \in DOMAIN mapping : mapping[j].name = name => j <= k].path)

\* stage.inpcrd = InpcrdParser(rst_path).parse() ... for a stage that is in
\* auto_restarts and has no restart_path
LinkOne(stage, fs, rst_path) ==
    IF rst_path.t = "str" /\ ~HasText(stage.restart_path)
    THEN [stage EXCEPT !.inpcrd = parse(fs, rst_path.v),
                       !.restart_path = rst_path,
                       !.validation = Append(@,
                           PathNote("INFO: restart file auto-detected", rst_path.v))]
    ELSE stage

\* for stage in stages: if stage.name in auto_restarts and not
\* stage.restart_path: ...
Linked(ss, fs, auto_restarts) ==
    [i \in DOMAIN ss |-> LinkOne(ss[i], fs, mapping_get(auto_restarts, ss[i].name))]

LinkRestarts(ss, fs) == Linked(ss, fs, auto_detect_restart_chain(ss, fs))

\* The paths InpcrdParser is called on: every candidate, then every restart linked
RestartPaths(after, linked) == [k \in DOMAIN linked |-> after[linked[k]].restart_path.v]

NewRestarts(ss, after) ==
    RestartPaths(after, SelectSeq([i \in DOMAIN ss |-> i],
                                  LAMBDA i : after[i].restart_path # ss[i].restart_path))

CandidatePaths(candidates) == [i \in DOMAIN candidates |-> candidates[i].path]

LinkParsed(ss, fs, after) == CandidatePaths(restart_candidates(fs)) \o NewRestarts(ss, after)

-----------------------------------------------------------------------------
(* The global and the HMR topology *)

\* ApplyGlobalPrmtop without `if not stage.prmtop`
ApplyGlobalPrmtop_Overwrite(ss, fs, global_prmtop) ==
    IF HasText(global_prmtop) /\ exists(fs, join(fs.directory, global_prmtop.v))
    THEN LET data == parse(fs, join(fs.directory, global_prmtop.v))
         IN  [i \in DOMAIN ss |->
                [ss[i] EXCEPT !.prmtop = data,
                              !.validation = Append(@,
                                  PathNote("INFO: using global prmtop", global_prmtop.v))]]
    ELSE ss

\* if global_prmtop: ... if os.path.exists(path): every stage whose prmtop is
\* empty takes the parsed record
ApplyGlobalPrmtop(ss, fs, global_prmtop) ==
    IF HasText(global_prmtop) /\ exists(fs, join(fs.directory, global_prmtop.v))
    THEN LET data == parse(fs, join(fs.directory, global_prmtop.v))
         IN  [i \in DOMAIN ss |->
                IF ~ss[i].prmtop.has
                THEN [ss[i] EXCEPT !.prmtop = data,
                                   !.validation = Append(@,
                                       PathNote("INFO: using global prmtop", global_prmtop.v))]
                ELSE ss[i]]
    ELSE ss

GlobalParsed(fs, global_prmtop) ==
    IF HasText(global_prmtop) /\ exists(fs, join(fs.directory, global_prmtop.v))
    THEN <<join(fs.directory, global_prmtop.v)>> ELSE <<>>

\* hasattr(stage.mdin, 'dt'), hasattr(stage.mdout, 'dt'): stage.mdin and
\* stage.mdout are MdinData and MdoutData, whose attributes are filename,
\* warnings and details; dt is an attribute of details
wrapper_has_dt(rec) == FALSE

\* The dt the HMR block reads for a stage
hmr_dt(stage) ==
    IF stage.mdin.has /\ wrapper_has_dt(stage.mdin) THEN stage.mdin.dt
    ELSE IF stage.mdout.has /\ wrapper_has_dt(stage.mdout) THEN Num(stage.mdout.dt)
    ELSE NoneV

\* if hmr_prmtop: ... if os.path.exists(path): every stage with dt >= 0.004
\* takes the parsed record, whatever its prmtop was
ApplyHmrPrmtop(ss, fs, hmr_prmtop) ==
    IF HasText(hmr_prmtop) /\ exists(fs, join(fs.directory, hmr_prmtop.v))
    THEN LET data == parse(fs, join(fs.directory, hmr_prmtop.v))
         IN  [i \in DOMAIN ss |->
                LET dt == hmr_dt(ss[i])
                IN  IF IsNum(dt) /\ dt.v >= PS \div 250
                    THEN [ss[i] EXCEPT !.prmtop = data,
                                       !.validation = Append(@,
                                           PathNote("INFO: using HMR prmtop", hmr_prmtop.v))]
                    ELSE ss[i]]
    ELSE ss

-----------------------------------------------------------------------------
(* smart_group_files, for recursive = False and no pattern filter *)

\* ext_map.get(ext): the kind of an extension, "" for None
ExtKind(ext) ==
    CASE ext \in { <<46, 112, 114, 109, 116, 111, 112>>,        \* .prmtop
                   <<46, 116, 111, 112>>,                       \* .top
                   <<46, 112, 97, 114, 109, 55>> }              \* .parm7
           -> "prmtop"
      [] ext \in { <<46, 105, 110, 112, 99, 114, 100>>,         \* .inpcrd
                   <<46, 114, 115, 116>>,                       \* .rst
                   <<46, 114, 115, 116, 55>>,                   \* .rst7
                   <<46, 110, 99, 114, 115, 116>>,              \* .ncrst
                   <<46, 114, 101, 115, 116, 114, 116>> }       \* .restrt
           -> "inpcrd"
      [] ext \in { <<46, 109, 100, 105, 110>>,                  \* .mdin
                   <<46, 105, 110>> }                           \* .in
           -> "mdin"
      [] ext \in { <<46, 109, 100, 111, 117, 116>>,             \* .mdout
                   <<46, 111, 117, 116>> }                      \* .out
           -> "mdout"
      [] ext \in { <<46, 109, 100, 99, 114, 100>>,              \* .mdcrd
                   <<46, 110, 99>>,                             \* .nc
                   <<46, 99, 114, 100>>,                        \* .crd
                   <<46, 120>> }                                \* .x
           -> "mdcrd"
      [] OTHER -> ""

\* The (stem, kind) a file of the listing is grouped under
FileKind(name) == ExtKind(str_lower(splitext_ext(name)))

\* The files that have a kind, in the order of the listing
Discovered(fs) == SelectSeq(fs.listing, LAMBDA f : FileKind(f.name) # "")

\* list(grouped.keys()): the stems in the order their first file is listed
RECURSIVE FirstSeen(_)
FirstSeen(names) ==
    IF names = <<>> THEN <<>>
    ELSE LET n == Len(names)
             before == FirstSeen(SubSeq(names, 1, n - 1))
         IN  IF names[n] \in Range(before) THEN before ELSE Append(before, names[n])

StemsOf(files) == [i \in DOMAIN files |-> with_suffix_empty(files[i].name)]

grouped_keys(fs) == FirstSeen(StemsOf(Discovered(fs)))

\* grouped[stem].get(kind) for the discovered files: grouped.setdefault(stem,
\* {})[kind] = full_path is an assignment, so the last file listed for
\* (stem, kind) stands
grouped_get(files, fs, stem, kind) ==
    IF \A i \in DOMAIN files : with_suffix_empty(files[i].name) # stem
                               \/ FileKind(files[i].name) # kind
    THEN NoPath
    ELSE PathV(join(fs.directory,
                    files[CHOOSE i \in DOMAIN files :
                            /\ with_suffix_empty(files[i].name) = stem
                            /\ FileKind(files[i].name) = kind
                            /\ \A j \in DOMAIN files :
                                 (/\ with_suffix_empty(files[j].name) = stem
                                  /\ FileKind(files[j].name) = kind) => j <= i].name))

-----------------------------------------------------------------------------
(* detect_numeric_sequences, and the sequence metadata smart_group_files   *)
(* stores with a stem                                                      *)

AllDigits(s) == \A i \in DOMAIN s : IsDigit(s[i])

NoNumber == [has |-> FALSE, base |-> <<>>, num |-> 0]

\* suffix_pattern.match(st), ^(.+?)[-_.]?(\d{2,})$: the shortest base of one
\* character or more after which come, to the end, an optional separator
\* (- _ .) and two digits or more
SuffixMatch(st) ==
    LET Digits(k) ==
            LET rest == SubSeq(st, k + 1, Len(st))
            IN  IF Len(rest) >= 2 /\ AllDigits(rest) THEN rest
                ELSE IF Len(rest) >= 3 /\ rest[1] \in {45, 95, 46} /\ AllDigits(Tail(rest))
                THEN Tail(rest) ELSE <<>>
        ks == {k \in 1..Len(st) : Digits(k) # <<>>}
    IN  IF ks = {} THEN NoNumber
        ELSE LET k == CHOOSE x \in ks : \A y \in ks : x <= y
             IN  [has |-> TRUE, base |-> SubSeq(st, 1, k), num |-> int(Digits(k))]

\* prefix_pattern.match(st), ^(\d{2,})[-_.]?(.+)$: the leading digits, all of
\* them when a character follows, all but the last when none does
PrefixMatch(st) ==
    LET run == DigitRun(st, 1)
    IN  IF run >= 2 /\ Len(st) > run
        THEN [has |-> TRUE, base |-> <<>>, num |-> int(SubSeq(st, 1, run))]
        ELSE IF run >= 3
        THEN [has |-> TRUE, base |-> <<>>, num |-> int(SubSeq(st, 1, run - 1))]
        ELSE NoNumber

\* str(Path(filename).parent), "" for "."
parent_dir(filename) ==
    LET sep == LastIndex(filename, 47)
    IN  IF sep = 0 THEN <<>> ELSE SubSeq(filename, 1, sep - 1)

\* The group a filename is appended to: "suffix:<base>", "prefix:<parent>",
\* or none; the suffix rule is tried first
KeyOfMatches(filename, by_suffix, by_prefix) ==
    IF by_suffix.has
    THEN [rule |-> "suffix", base |-> by_suffix.base, num |-> by_suffix.num]
    ELSE IF by_prefix.has
    THEN [rule |-> "prefix", base |-> parent_dir(filename), num |-> by_prefix.num]
    ELSE [rule |-> "", base |-> <<>>, num |-> 0]

SequenceKey(filename) ==
    KeyOfMatches(filename, SuffixMatch(stem_of(filename)), PrefixMatch(stem_of(filename)))

\* clean_base: the key without "suffix:" or "prefix:" (no name of the model
\* contains either text), "numbered_sequence" when nothing is left
clean_base(key) ==
    IF key.base = <<>>
    THEN <<110, 117, 109, 98, 101, 114, 101, 100, 95, 115, 101, 113, 117, 101, 110, 99, 101>>
    ELSE key.base

NoSequence == [has |-> FALSE, base |-> <<>>, index |-> 0, length |-> 0]

\* The members of the group of key[k], and the first of them
Group(key, k) ==
    {j \in DOMAIN key : key[j].rule = key[k].rule /\ key[j].base = key[k].base}
Made(key, k) == CHOOSE j \in Group(key, k) : \A m \in Group(key, k) : j <= m

\* Whether a group made after that of key[i] has the same clean base and two
\* members or more: result[clean_base] is assigned once per group, so the
\* later group stands
Shadowed(key, i) ==
    \E k \in DOMAIN key :
        /\ key[k].rule # "" /\ k \notin Group(key, i)
        /\ clean_base(key[k]) = clean_base(key[i])
        /\ Cardinality(Group(key, k)) >= 2
        /\ Made(key, k) > Made(key, i)

\* The members sorted before key[i]: by number, the sort stable
Ahead(key, i) ==
    {j \in Group(key, i) : \/ key[j].num < key[i].num
                           \/ (key[j].num = key[i].num /\ j < i)}

\* grouped[stem]["_sequence_base" / "_sequence_index" / "_sequence_length"] for
\* the stem filenames[i], key[k] being the group of filenames[k]: set when the
\* group has two members or more and is not shadowed
InfoOfKeys(key, i) ==
    IF key[i].rule # "" /\ Cardinality(Group(key, i)) >= 2 /\ ~Shadowed(key, i)
    THEN [has |-> TRUE, base |-> clean_base(key[i]),
          index |-> Cardinality(Ahead(key, i)), length |-> Cardinality(Group(key, i))]
    ELSE NoSequence

SequenceInfo(filenames, i) ==
    InfoOfKeys([k \in DOMAIN filenames |-> SequenceKey(filenames[k])], i)

\* The group of key[i] in numeric order: the members at positions 1, 2, ...
Sorted(filenames, key, i) ==
    [p \in 1..Cardinality(Group(key, i)) |->
        filenames[CHOOSE j \in Group(key, i) : Cardinality(Ahead(key, j)) = p - 1]]

\* detect_numeric_sequences: the entries of `result`, each a clean base and
\* its filenames
SequencesOfKeys(filenames, key) ==
    { [base |-> clean_base(key[i]), members |-> Sorted(filenames, key, i)] :
        i \in {k \in DOMAIN key : InfoOfKeys(key, k).has} }

detect_numeric_sequences(filenames) ==
    SequencesOfKeys(filenames, [k \in DOMAIN filenames |-> SequenceKey(filenames[k])])

\* smart_group_files: grouped[stem][kind] for the stems and the kinds of the
\* listing
Grouping(fs, files, stems) ==
    [at \in Range(stems) \X Range(ParserOrder) |-> grouped_get(files, fs, at[1], at[2])]

smart_group_files(fs) == Grouping(fs, Discovered(fs), grouped_keys(fs))

-----------------------------------------------------------------------------
(* Role inference in directory discovery *)

\* s.split("/")
RECURSIVE split(_)
split(s) ==
    LET at == {i \in DOMAIN s : s[i] = 47}
    IN  IF at = {} THEN <<s>>
        ELSE LET i == CHOOSE x \in at : \A y \in at : x <= y
             IN  <<SubSeq(s, 1, i - 1)>> \o split(SubSeq(s, i + 1, Len(s)))

\* The role one part of the path gives in the loop over the parts, "" for none
PartRole(part) ==
    IF \/ StartsWith(part, <<109, 105, 110>>)                     \* min
       \/ IsSubstring(<<95, 109, 105, 110>>, part)                \* _min
       \/ part = <<101, 109>>                                     \* em
    THEN "minimization"
    ELSE IF \/ IsSubstring(<<104, 101, 97, 116>>, part)           \* heat
            \/ IsSubstring(<<119, 97, 114, 109>>, part)           \* warm
    THEN "heating"
    ELSE IF \/ StartsWith(part, <<101, 113, 117, 105, 108>>)      \* equil
            \/ part = <<110, 118, 116>>                           \* nvt
            \/ part = <<110, 112, 116>>                           \* npt
            \/ IsSubstring(<<95, 101, 113, 117, 105, 108>>, part) \* _equil
    THEN "equilibration"
    ELSE IF \/ StartsWith(part, <<112, 114, 111, 100>>)           \* prod
            \/ IsSubstring(<<95, 112, 114, 111, 100>>, part)      \* _prod
    THEN "production"
    ELSE ""

\* The role the file name gives after the loop, "" for none
FilenameRole(filename) ==
    IF \/ IsSubstring(<<109, 105, 110>>, filename)                \* min
       \/ IsSubstring(<<109, 105, 110, 105, 109>>, filename)      \* minim
       \/ IsSubstring(<<101, 109>>, filename)                     \* em
    THEN "minimization"
    ELSE IF \/ IsSubstring(<<104, 101, 97, 116>>, filename)       \* heat
            \/ IsSubstring(<<119, 97, 114, 109>>, filename)       \* warm
    THEN "heating"
    ELSE IF \/ IsSubstring(<<101, 113, 117, 105, 108>>, filename) \* equil
            \/ IsSubstring(<<110, 118, 116, 95>>, filename)       \* nvt_
            \/ IsSubstring(<<110, 112, 116, 95>>, filename)       \* npt_
    THEN "equilibration"
    ELSE IF IsSubstring(<<112, 114, 111, 100>>, filename)         \* prod
    THEN "production"
    ELSE ""

\* path_lower.replace("\\", "/")
slashed(path) == [i \in DOMAIN path |-> IF path[i] = 92 THEN 47 ELSE path[i]]

\* The role of the first part that gives one, else the role the file name gives
RoleOfParts(parts) ==
    IF \E i \in DOMAIN parts : PartRole(parts[i]) # ""
    THEN Role(PartRole(parts[CHOOSE i \in DOMAIN parts :
                               /\ PartRole(parts[i]) # ""
                               /\ \A j \in 1..(i - 1) : PartRole(parts[j]) = ""]))
    ELSE IF FilenameRole(parts[Len(parts)]) # ""
    THEN Role(FilenameRole(parts[Len(parts)]))
    ELSE NoRole

infer_stage_role_from_path(path) == RoleOfParts(split(slashed(str_lower(path))))

\* getattr(mdout.details, "imin", None): MdoutMetadata has no attribute imin
mdout_imin(rec) == NoneV

\* The deck's stage_role when the stage has a deck: MdinMetadata.stage_role is
\* never empty (its default is "Generic MD Stage" and parse_mdin assigns it the
\* text _classify_stage returns), so the checks of cntrl_parameters that follow
\* it are not reached.  Without a deck the log is asked for imin.
infer_stage_role_from_content(mdin, mdout) ==
    IF mdin.has /\ HasRole(mdin.stage_role) THEN mdin.stage_role
    ELSE IF mdout.has /\ mdout_imin(mdout) = Num(1) THEN Role("minimization")
    ELSE NoRole

\* The role of the first grouping rule whose pattern is found in the stem;
\* the patterns modelled are plain text, for which search is `in`
RuleRole(grouping_rules, stem) ==
    LET hits == {i \in DOMAIN grouping_rules : IsSubstring(grouping_rules[i].pattern, stem)}
    IN  IF hits = {} THEN NoRole
        ELSE Role(grouping_rules[CHOOSE i \in hits : \A j \in hits : i <= j].role)

-----------------------------------------------------------------------------
(* auto_discover.  args holds its keyword arguments: manifest (NoManifest  *)
(* for None), grouping_rules, include_roles, include_stems, restart_files, *)
(* skip_cross_stage_validation, auto_detect_restarts, global_prmtop and    *)
(* hmr_prmtop; recursive is False and pattern_filter None.                 *)

\* Mutant of sorted: the stems left in the order the listing gave them
sorted_Unsorted(keys) == keys

\* sorted(grouped.items()): the keys are distinct, so the stems alone decide
RECURSIVE sorted(_)
sorted(keys) ==
    IF keys = <<>> THEN <<>>
    ELSE LET m == CHOOSE i \in DOMAIN keys : \A j \in DOMAIN keys : ~LexLess(keys[j], keys[i])
         IN  <<keys[m]>> \o sorted(SubSeq(keys, 1, m - 1) \o SubSeq(keys, m + 1, Len(keys)))

\* One role-inference step of the discovery loop: taken when the stage has no
\* role and `inferred` is one
WithInferredRole(stage, inferred, msg) ==
    IF ~HasRole(stage.stage_role) /\ HasRole(inferred)
    THEN [stage EXCEPT !.stage_role = inferred,
                       !.validation = Append(@, Note(msg, <<inferred.v>>, <<>>))]
    ELSE stage

\* The note for a stem that is part of a sequence
SequenceNoted(stage, info) ==
    IF info.has
    THEN [stage EXCEPT !.validation = Append(@,
              [msg |-> "INFO: Part of sequence (item of)", labels |-> <<>>,
               nums |-> <<info.index + 1, info.length>>, names |-> <<info.base>>])]
    ELSE stage

WithContentRole(stage) ==
    WithInferredRole(stage, infer_stage_role_from_content(stage.mdin, stage.mdout),
                     "INFO: stage_role inferred from file content")

WithPathRole(stage, stem) ==
    WithInferredRole(stage, infer_stage_role_from_path(stem),
                     "INFO: stage_role inferred from path")

\* The position of a stem among the keys of `grouped`
IndexOf(filenames, stem) == CHOOSE k \in DOMAIN filenames : filenames[k] = stem

\* The end of an iteration: the include_roles filter, and for a stage that
\* passes it the restart restart_files names
StemStage(fs, args, at, stage, kept) ==
    [stage |-> WithRestartFile(stage, fs, restart_source(stage, args.restart_files),
                               kept).stage,
     kept |-> kept,
     parsed |-> Parsed(at)
                \o WithRestartFile(stage, fs, restart_source(stage, args.restart_files),
                                   kept).parsed]

StemFiltered(fs, args, at, stage) ==
    StemStage(fs, args, at, stage, Included(stage, args.include_roles, {}))

\* One iteration of the discovery loop for a stem that passes include_stems,
\* given the stem's paths: the stage, whether it passes include_roles, and the
\* paths parsed
StemOfPaths(fs, filenames, stem, args, at) ==
    StemFiltered(fs, args, at,
        WithPathRole(
            WithContentRole(
                WithFiles(
                    SequenceNoted(
                        [NewStage(stem) EXCEPT
                            !.stage_role = RuleRole(args.grouping_rules, stem)],
                        SequenceInfo(filenames, IndexOf(filenames, stem))),
                    fs, at)),
            stem))

StageOfStem(fs, files, filenames, stem, args) ==
    StemOfPaths(fs, filenames, stem, args,
                [k \in Range(ParserOrder) |-> grouped_get(files, fs, stem, k)])

RECURSIVE StemsToStages(_, _, _, _, _)
StemsToStages(stems, fs, files, filenames, args) ==
    IF stems = <<>> THEN Built(Returned, <<>>, <<>>)
    ELSE IF args.include_stems # {} /\ stems[Len(stems)] \notin args.include_stems
    THEN StemsToStages(SubSeq(stems, 1, Len(stems) - 1), fs, files, filenames, args)
    ELSE Appended(StemsToStages(SubSeq(stems, 1, Len(stems) - 1), fs, files, filenames, args),
                  StageOfStem(fs, files, filenames, stems[Len(stems)], args),
                  StageOfStem(fs, files, filenames, stems[Len(stems)], args).kept)

\* The discovery branch up to the end of its loop
DiscoverStages(fs, args) ==
    StemsToStages(sorted(grouped_keys(fs)), fs, Discovered(fs), grouped_keys(fs), args)

\* The stages after restart linking and the topology overrides, validated
Assembled(fs, args, made, linked) ==
    Built(Returned,
          ProtocolValidate(
              IF args.manifest.t # "none"
              THEN ApplyHmrPrmtop(ApplyGlobalPrmtop(linked, fs, args.global_prmtop),
                                  fs, args.hmr_prmtop)
              ELSE ApplyGlobalPrmtop(linked, fs, args.global_prmtop),
              ~args.skip_cross_stage_validation),
          made.parsed
          \o (IF args.auto_detect_restarts THEN LinkParsed(made.stages, fs, linked) ELSE <<>>)
          \o GlobalParsed(fs, args.global_prmtop)
          \o (IF args.manifest.t # "none" THEN GlobalParsed(fs, args.hmr_prmtop) ELSE <<>>))

\* What follows the stages made from the manifest or the directory
AfterStages(fs, args, made) ==
    IF made.raised # "" THEN made
    ELSE Assembled(fs, args, made,
                   IF args.auto_detect_restarts
                   THEN LinkRestarts(made.stages, fs) ELSE made.stages)

auto_discover(fs, args) ==
    AfterStages(fs, args,
                IF args.manifest.t # "none"
                THEN _manifest_to_stages(args.manifest, fs, args.include_roles,
                                         args.include_stems, args.restart_files)
                ELSE DiscoverStages(fs, args))

\* ProtocolBuilder.build for a builder made by from_directory or
\* from_manifest: `self` is the arguments it hands to auto_discover, its
\* _skip_cross_stage_validation among them, and its _stage_tolerances

\* Apply per-stage tolerances
Tolerances(ss, _stage_tolerances) ==
    [i \in DOMAIN ss |->
        IF \E k \in DOMAIN _stage_tolerances : _stage_tolerances[k].name = ss[i].name
        THEN LET at == CHOOSE k \in DOMAIN _stage_tolerances :
                           _stage_tolerances[k].name = ss[i].name
             IN  [ss[i] EXCEPT !.expected_gap_ps = Num(_stage_tolerances[at].expected),
                               !.gap_tolerance_ps = Num(_stage_tolerances[at].tolerance)]
        ELSE ss[i]]

\* What build does with the protocol auto_discover returned
Finished(self, protocol) ==
    IF protocol.raised # "" THEN protocol
    ELSE [protocol EXCEPT !.stages =
            IF self.args.skip_cross_stage_validation
            THEN Tolerances(@, self._stage_tolerances)
            ELSE ProtocolValidate(Tolerances(@, self._stage_tolerances), TRUE)]

build_protocol(fs, self) ==
    Finished(self, auto_discover(fs, [self.args EXCEPT !.skip_cross_stage_validation = TRUE,
                                                       !.global_prmtop = NoPath,
                                                       !.hmr_prmtop = NoPath]))

\* load_protocol_from_manifest for manifest data without global settings: the
\* arguments it hands on; grouping_rules and auto_detect_restarts are not
\* among them
load_protocol_from_manifest(fs, args) ==
    auto_discover(fs, [args EXCEPT !.grouping_rules = <<>>, !.auto_detect_restarts = FALSE])

\* The arguments _plan_command hands on with a manifest
PlanArgs(plan, detect) ==
    [manifest |-> plan.manifest, grouping_rules |-> <<>>, include_roles |-> {},
     include_stems |-> {}, restart_files |-> <<>>,
     skip_cross_stage_validation |-> plan.skip_cross_stage_validation,
     auto_detect_restarts |-> detect, global_prmtop |-> NoPath, hmr_prmtop |-> NoPath]

\* The restarts linked after the protocol was loaded and validated
PlanLinked(fs, loaded, linked) ==
    Built(Returned, linked, loaded.parsed \o LinkParsed(loaded.stages, fs, linked))

PlanLoaded(fs, plan, loaded) ==
    IF loaded.raised = "" /\ plan.auto_detect_restarts
    THEN PlanLinked(fs, loaded, LinkRestarts(loaded.stages, fs))
    ELSE loaded

\* cli._plan_command up to _print_protocol.  With --manifest the protocol is
\* loaded, which validates it, and the restarts are linked afterwards; without
\* it the manifest typed in (plan.typed) goes to auto_discover.
_plan_command(fs, plan) ==
    IF ~plan.typed
    THEN PlanLoaded(fs, plan, load_protocol_from_manifest(fs, PlanArgs(plan, FALSE)))
    ELSE IF plan.manifest.items = <<>> THEN Built(Raised("exit 1", <<>>), <<>>, <<>>)
    ELSE auto_discover(fs, PlanArgs(plan, plan.auto_detect_restarts))

-----------------------------------------------------------------------------
(* _serialize_value.  A value graph is a heap: a function from object       *)
(* numbers to objects, each of a kind ("list", "dict", "dataclass",         *)
(* "to_dict" for an object with that method, "object" for one with a        *)
(* __dict__, "scalar" for None, str, int, float and bool) with the objects  *)
(* it holds, in order.  id() of an object is its number paired with the     *)
(* number of the copy it belongs to: 0 for the caller's objects, and for    *)
(* what copy.deepcopy makes inside asdict the depth of the call that made   *)
(* it.  The interpreter ends a recursion deeper than RecursionLimit calls   *)
(* with RecursionError.                                                     *)

\* What dataclasses.asdict rebuilds itself: dataclass instances, lists, dicts
AsdictKinds == {"dataclass", "list", "dict"}

\* The objects of the kinds given that are reached from the objects S through
\* objects of those kinds
RECURSIVE Reached(_, _, _)
Reached(heap, S, kinds) ==
    IF \A n \in S : heap[n].kind \in kinds => \A c \in Range(heap[n].kids) :
                        heap[c].kind \in kinds => c \in S
    THEN {n \in S : heap[n].kind \in kinds}
    ELSE Reached(heap,
                 S \cup UNION { {c \in Range(heap[n].kids) : heap[c].kind \in kinds} :
                                  n \in {m \in S : heap[m].kind \in kinds} },
                 kinds)

\* A cycle among the objects of the kinds given that are reached from value
OnCycle(heap, value, kinds) ==
    \E n \in Reached(heap, {value}, kinds) :
        n \in Reached(heap, Range(heap[n].kids), kinds)

\* asdict(value) recurses into fields, lists and dicts with no memo, so a
\* cycle among them never ends; anything else it hands to copy.deepcopy
asdict_recurses(heap, value) == OnCycle(heap, value, AsdictKinds)

\* What a call gives: the error raised if any, the number of
\* "<circular reference>" written, and whether the result holds an object
\* returned by to_dict() as it came
Walked(raised, circular, unwalked) ==
    [raised |-> raised, circular |-> circular, unwalked |-> unwalked]

\* The results of a comprehension over the held objects, in order: the first
\* error ends it
Both(a, b) ==
    IF a.raised # "" THEN a
    ELSE Walked(b.raised, a.circular + b.circular, a.unwalked \/ b.unwalked)

\* _serialize_value(value, _visited) at the given depth of recursion.  fresh
\* tells that value is a list or dict asdict has just built (a dataclass
\* instance it has turned into a dict included): its id is new, so it is not
\* in _visited, and what it holds is again fresh or a deep copy.
RECURSIVE _serialize_value(_, _, _, _, _, _)
RECURSIVE serialize_each(_, _, _, _, _, _)
serialize_each(heap, kids, copy, rebuilt, _visited, depth) ==
    IF kids = <<>> THEN Walked("", 0, FALSE)
    ELSE Both(_serialize_value(heap, Head(kids),
                               IF rebuilt /\ heap[Head(kids)].kind \notin AsdictKinds
                               THEN depth ELSE copy,
                               rebuilt /\ heap[Head(kids)].kind \in AsdictKinds,
                               _visited, depth),
              serialize_each(heap, Tail(kids), copy, rebuilt, _visited, depth))

_serialize_value(heap, value, copy, fresh, _visited, depth) ==
    IF heap[value].kind = "scalar" THEN Walked("", 0, FALSE)
    ELSE IF depth > RecursionLimit THEN Walked("RecursionError", 0, FALSE)
    ELSE IF ~fresh /\ <<value, copy>> \in _visited THEN Walked("", 1, FALSE)
    ELSE IF heap[value].kind = "dataclass" /\ ~fresh /\ asdict_recurses(heap, value)
    THEN Walked("RecursionError", 0, FALSE)
    ELSE IF heap[value].kind = "to_dict" THEN Walked("", 0, TRUE)
    ELSE serialize_each(heap, heap[value].kids, copy,
                        fresh \/ heap[value].kind = "dataclass",
                        IF fresh THEN _visited ELSE _visited \cup {<<value, copy>>},
                        depth + 1)

-----------------------------------------------------------------------------
(* _prune_methods_value.  A payload is a tree: None, a scalar (bool, int,   *)
(* str, written as it prints), a list or a dict; the items of a list or     *)
(* dict are its entries in order, each with its key (0 in a list).          *)

Leaf(t, v) == [t |-> t, v |-> v, items |-> <<>>]
Container(t, items) == [t |-> t, v |-> "", items |-> items]
Keyed(key, val) == [key |-> key, val |-> val]

\* Mutant of Dropped: every falsy value skipped (`if not cleaned: continue`)
Dropped_Falsy(cleaned) ==
    \/ cleaned.t = "none"
    \/ cleaned.t \in {"dict", "list"} /\ Len(cleaned.items) = 0
    \/ cleaned.t \notin {"dict", "list"} /\ cleaned.v \in {"False", "0", ""}

\* The two `continue`s: cleaned is None, or is a dict or list of length 0
Dropped(cleaned) ==
    \/ cleaned.t = "none"
    \/ cleaned.t \in {"dict", "list"} /\ Len(cleaned.items) = 0

\* pruned / pruned_list: the cleaned entries that are not skipped
Pruned(cleaned) == SelectSeq(cleaned, LAMBDA e : ~Dropped(e.val))

RECURSIVE _prune_methods_value(_)
_prune_methods_value(value) ==
    IF value.t \in {"dict", "list"}
    THEN Container(value.t,
                   Pruned([i \in DOMAIN value.items |->
                              Keyed(value.items[i].key,
                                    _prune_methods_value(value.items[i].val))]))
    ELSE value

-----------------------------------------------------------------------------
(* StreamingStats (legacy_extractors/mdout.py).  Its floats are those of a  *)
(* binary format with a significand of 4 bits, rounded to nearest with ties *)
(* to even as IEEE 754 doubles are; a float is written as the integer       *)
(* number of quanta it holds, 1.0 being Quantum quanta.  The samples are    *)
(* small enough that no result overflows the largest exponent.             *)

Quantum == 2 ^ 4
Significands == 0..(2 ^ 4 - 1)
Exponents == 0..12

\* n / d rounded to a multiple of 2^e: to nearest, ties to the even multiple
RoundAt(n, d, e) ==
    LET m == n \div (d * 2 ^ e)
        rem == n % (d * 2 ^ e)
    IN  IF 2 * rem > d * 2 ^ e \/ (2 * rem = d * 2 ^ e /\ m % 2 = 1)
        THEN (m + 1) * 2 ^ e ELSE m * 2 ^ e

\* The exponent of n / d: the least for which its significand has 4 bits
ExponentOf(n, d) ==
    CHOOSE e \in Exponents :
        /\ n \div (d * 2 ^ e) \in Significands
        /\ e = 0 \/ n \div (d * 2 ^ (e - 1)) \notin Significands

\* The float nearest to n / d, for d > 0
Round(n, d) ==
    IF n < 0 THEN 0 - RoundAt(0 - n, d, ExponentOf(0 - n, d))
    ELSE RoundAt(n, d, ExponentOf(n, d))

\* Whether n / d is a float
IsExact(n, d) == Round(n, d) * d = n

\* math.sqrt(x): the float nearest to the square root of x, which lies below
\* 2^6 for every x that does not overflow
sqrt(x) ==
    LET floats == { m * 2 ^ e : m \in Significands, e \in 0..6 }
    IN  CHOOSE r \in floats :
            \A s \in floats :
                \/ r = s
                \/ r < s /\ 4 * x * Quantum <= (r + s) * (r + s)
                \/ s < r /\ 4 * x * Quantum >= (r + s) * (r + s)

\* StreamingStats(): count = 0, mean = 0.0, m2 = 0.0.  `added` is the samples
\* added so far and `exact` whether no operation on them has rounded
StreamingStats == [count |-> 0, mean |-> 0, m2 |-> 0, added |-> <<>>, exact |-> TRUE]

\* The object after self.mean += delta / self.count, given delta
MeanUpdated(self, value, delta) ==
    [self EXCEPT !.count = self.count + 1,
                 !.mean = Round(self.mean + Round(delta, self.count + 1), 1),
                 !.added = Append(@, value),
                 !.exact = /\ @
                           /\ delta = value - self.mean
                           /\ IsExact(delta, self.count + 1)
                           /\ IsExact(self.mean * (self.count + 1) + delta, self.count + 1)]

\* The object after self.m2 += delta * delta2, given delta and delta2
M2Updated(self, delta, delta2) ==
    [self EXCEPT !.m2 = Round(self.m2 + Round(delta * delta2, Quantum), 1),
                 !.exact = /\ @
                           /\ IsExact(delta * delta2, Quantum)
                           /\ IsExact(self.m2 * Quantum + delta * delta2, Quantum)]

\* delta2 = value - self.mean, with the new mean
WithDelta2(self, value, delta) ==
    [M2Updated(self, delta, Round(value - self.mean, 1))
        EXCEPT !.exact = @ /\ IsExact(value - self.mean, 1)]

\* add with `self.mean += delta`: the division by the count left out
add_Undivided(self, value) ==
    WithDelta2([self EXCEPT !.count = self.count + 1,
                            !.mean = Round(self.mean + Round(value - self.mean, 1), 1),
                            !.added = Append(@, value)],
               value, Round(value - self.mean, 1))

\* StreamingStats.add(value)
add(self, value) ==
    WithDelta2(MeanUpdated(self, value, Round(value - self.mean, 1)),
               value, Round(value - self.mean, 1))

\* sample_variance: m2 / (count - 1), 0.0 for fewer than two samples
sample_variance(self) ==
    IF self.count < 2 THEN 0 ELSE Round(self.m2, self.count - 1)

stdev(self) == sqrt(sample_variance(self))

\* get_stats(): (mean, stdev)
get_stats(self) ==
    IF self.count = 0 THEN <<NoneV, NoneV>>
    ELSE IF self.count = 1 THEN <<Num(self.mean), Num(0)>>
    ELSE <<Num(self.mean), Num(stdev(self))>>

-----------------------------------------------------------------------------
(* parse_mdout (legacy_extractors/mdout.py), its frame processing.  A line  *)
(* is what the loop tests of it: whether it contains the anchor (both       *)
(* 'NSTEP =' and 'TIME(PS)'), a summary header ('A V E R A G E S' or        *)
(* 'R M S  F L U C T U A T I O N S'), a clearing title ('Final Performance  *)
(* Info' or 'TIMINGS'), whether it stops a frame (it is blank once stripped *)
(* or contains '---'), and the TEMP(K) value written on it, if any.  A      *)
(* value carries the number of the line it was read from.                   *)

Line(anchor, header, clearing, stops, temp) ==
    [anchor |-> anchor, header |-> header, clearing |-> clearing, stops |-> stops,
     temp |-> temp]

\* for offset in range(1, 10): ... if "---" in nl or not nl: break: the last
\* line of those combined with line i
RECURSIVE CombinedUpTo(_, _, _)
CombinedUpTo(lines, i, offset) ==
    IF offset >= 10 \/ i + offset > Len(lines) \/ lines[i + offset].stops
    THEN i + offset - 1
    ELSE CombinedUpTo(lines, i, offset + 1)

\* _extract_key_values(combined)['TEMP(K)']: the last value written on the
\* lines i..last, with its line
RECURSIVE _extract_key_values(_, _, _)
_extract_key_values(lines, i, last) ==
    IF last < i THEN [t |-> "none", v |-> 0, line |-> 0]
    ELSE IF lines[last].temp.t = "num"
    THEN [t |-> "num", v |-> lines[last].temp.v, line |-> last]
    ELSE _extract_key_values(lines, i, last - 1)

\* ThermoStats.add_frame(data): the count, and the temperature when there is one
add_frame(self, data) ==
    [self EXCEPT !.count = @ + 1,
                 !.temps = IF data.t = "num" THEN Append(@, data) ELSE @]

\* add_frame that also counts what is read inside a summary section
FrameAdded_Always(self, line, in_summary_section, data) ==
    IF line.anchor THEN add_frame(self, data) ELSE self

\* if "NSTEP =" in line and "TIME(PS)" in line: if not in_summary_section: ...
FrameAdded(self, line, in_summary_section, data) ==
    IF line.anchor /\ ~in_summary_section THEN add_frame(self, data) ELSE self

\* One iteration of the loop over the lines, for line i: the header test, the
\* frame, the clearing test
Iterated(self, i, in_summary_section) ==
    [FrameAdded(self, self.lines[i], in_summary_section,
                _extract_key_values(self.lines, i, CombinedUpTo(self.lines, i, 1)))
        EXCEPT !.i = i + 1,
               !.in_summary_section = in_summary_section /\ ~self.lines[i].clearing,
               !.pc = IF i = Len(self.lines) THEN "done" ELSE "reading"]

-----------------------------------------------------------------------------
(* parse_inpcrd (legacy_extractors/inpcrd.py).  A restart file is its first *)
(* bytes (at most four; fewer when the file is shorter), the number of its  *)
(* lines, what its second line holds (nothing but blanks, something that is *)
(* no integer, or NATOM) and, for a file a NetCDF library can open, the     *)
(* variables it has.  A record is the fields the claims read; warnings is   *)
(* the number of warnings.                                                  *)

InpcrdMetadata(file_format) ==
    [file_format |-> file_format, natoms |-> 0, has_coordinates |-> FALSE,
     has_velocities |-> FALSE, has_box |-> FALSE, warnings |-> 0]

Warned(md) == [md EXCEPT !.warnings = @ + 1]

\* header.startswith(b'CDF') for header = f.read(4)
_detect_format(file) ==
    IF Len(file.head) >= 3 /\ SubSeq(file.head, 1, 3) = <<67, 68, 70>>
    THEN "NetCDF" ELSE "ASCII"

\* math.ceil((md.natoms * 3) / coords_per_line)
lines_per_structure(natoms) == (natoms * 3 + 5) \div 6

\* The box: remainder_box == 1, or more with a warning
WithBox(md, remainder_box) ==
    IF remainder_box = 1 THEN [md EXCEPT !.has_box = TRUE]
    ELSE IF remainder_box > 1 THEN Warned([md EXCEPT !.has_box = TRUE])
    ELSE md

\* Body with `line_count > 2 * lines_per_structure` for the velocities
Body_StrictVelocities(md, line_count, per_structure) ==
    IF line_count > 2 * per_structure
    THEN WithBox([md EXCEPT !.has_coordinates = TRUE, !.has_velocities = TRUE],
                 line_count - 2 * per_structure)
    ELSE IF line_count >= per_structure
    THEN WithBox([md EXCEPT !.has_coordinates = TRUE], line_count - per_structure)
    ELSE Warned([md EXCEPT !.has_coordinates = TRUE])

\* The flags from the number of body lines
Body(md, line_count, per_structure) ==
    IF line_count >= 2 * per_structure
    THEN WithBox([md EXCEPT !.has_coordinates = TRUE, !.has_velocities = TRUE],
                 line_count - 2 * per_structure)
    ELSE IF line_count >= per_structure
    THEN WithBox([md EXCEPT !.has_coordinates = TRUE], line_count - per_structure)
    ELSE Warned([md EXCEPT !.has_coordinates = TRUE])

_parse_ascii_inpcrd(file) ==
    IF file.lines < 2 \/ file.second.t # "num"
    THEN Warned(InpcrdMetadata("Formatted ASCII"))
    ELSE Body([InpcrdMetadata("Formatted ASCII") EXCEPT !.natoms = file.second.v],
              file.lines - 2, lines_per_structure(file.second.v))

\* Without a library, or for a file the library cannot open, a warning; else
\* the dimensions and variables of the file
_parse_netcdf_inpcrd(file, HAS_NETCDF) ==
    IF ~HAS_NETCDF \/ ~file.netcdf.valid THEN Warned(InpcrdMetadata("NetCDF"))
    ELSE [InpcrdMetadata("NetCDF") EXCEPT !.natoms = file.netcdf.atom,
                                         !.has_coordinates = file.netcdf.coordinates,
                                         !.has_velocities = file.netcdf.velocities,
                                         !.has_box = file.netcdf.cell_lengths]

parse_inpcrd(file, HAS_NETCDF) ==
    IF _detect_format(file) = "NetCDF" THEN _parse_netcdf_inpcrd(file, HAS_NETCDF)
    ELSE _parse_ascii_inpcrd(file)

-----------------------------------------------------------------------------
(* parse_mdin_file (legacy_extractors/mdin.py).  Text is a sequence of      *)
(* character codes; the regular expressions are matched as Python's re      *)
(* matches them (leftmost, alternatives in order, greedy and lazy repeats). *)

Whitespace == {9, 10, 11, 12, 13, 32}
NameChars == (48..57) \cup (65..90) \cup (97..122) \cup {95}
lower(c) == IF c \in 65..90 THEN c + 32 ELSE c
Lowered(s) == [i \in 1..Len(s) |-> lower(s[i])]

\* The first position from i on whose character is in `chars`, Len(s) + 1 if none
RECURSIVE FirstIn(_, _, _)
FirstIn(s, i, chars) ==
    IF i > Len(s) \/ s[i] \in chars THEN i ELSE FirstIn(s, i + 1, chars)

\* The first position from i on whose character is not in `chars`
RECURSIVE FirstNotIn(_, _, _)
FirstNotIn(s, i, chars) ==
    IF i > Len(s) \/ s[i] \notin chars THEN i ELSE FirstNotIn(s, i + 1, chars)

\* The last position from j down whose character is not in `chars`, 0 if none
RECURSIVE LastNotIn(_, _, _)
LastNotIn(s, j, chars) ==
    IF j = 0 \/ s[j] \notin chars THEN j ELSE LastNotIn(s, j - 1, chars)

\* str.strip(chars)
strip(s, chars) == SubSeq(s, FirstNotIn(s, 1, chars), LastNotIn(s, Len(s), chars))

\* re.sub(r"[!#].*?(\n|$)", "\n", s) from position i on
RECURSIVE StripComments(_, _)
StripComments(s, i) ==
    IF i > Len(s) THEN <<>>
    ELSE IF s[i] \in {33, 35} THEN <<10>> \o StripComments(s, FirstIn(s, i + 1, {10}) + 1)
    ELSE <<s[i]>> \o StripComments(s, i + 1)

RECURSIVE IntOf(_)
IntOf(s) == IF s = <<>> THEN 0 ELSE 10 * IntOf(SubSeq(s, 1, Len(s) - 1)) + (s[Len(s)] - 48)

\* _clean_value on the stripped text (the values here hold no signs and no
\* floats)
Cleaned(val) ==
    IF val = <<>> THEN Str(<<>>)
    ELSE IF 36 \in Range(val) THEN Str(val)
    ELSE IF Lowered(val) = <<46, 116, 114, 117, 101, 46>> THEN [t |-> "bool", v |-> 1]
    ELSE IF Lowered(val) = <<46, 102, 97, 108, 115, 101, 46>> THEN [t |-> "bool", v |-> 0]
    ELSE IF AllDigits(val) THEN Num(IntOf(val))
    ELSE Str(val)

_clean_value(val) == Cleaned(strip(strip(strip(strip(val, Whitespace), {44}), {34}), {39}))

\* Where the value of kv_pattern that starts at q ends, 0 if there is none:
\* a quoted string (no backslashes here), ${...}, $(...), or a bare token
Quoted(s, q, quote) ==
    IF q <= Len(s) /\ s[q] = quote /\ FirstIn(s, q + 1, {quote}) <= Len(s)
    THEN FirstIn(s, q + 1, {quote}) ELSE 0

Placeholder(s, q, open, close) ==
    IF q + 3 <= Len(s) /\ s[q] = 36 /\ s[q + 1] = open /\ s[q + 2] # close
       /\ FirstIn(s, q + 3, {close}) <= Len(s)
    THEN FirstIn(s, q + 3, {close}) ELSE 0

Bare(s, q) == FirstIn(s, q, {44, 47} \cup Whitespace) - 1

ValueEnd(s, q) ==
    IF Quoted(s, q, 39) # 0 THEN Quoted(s, q, 39)
    ELSE IF Quoted(s, q, 34) # 0 THEN Quoted(s, q, 34)
    ELSE IF Placeholder(s, q, 123, 125) # 0 THEN Placeholder(s, q, 123, 125)
    ELSE IF Placeholder(s, q, 40, 41) # 0 THEN Placeholder(s, q, 40, 41)
    ELSE IF Bare(s, q) >= q THEN Bare(s, q)
    ELSE 0

\* The match of kv_pattern that starts at i, as [key, from, to] of the value;
\* to = 0 if there is none
KvMatch(s, i, e, eq) ==
    IF eq <= Len(s) /\ s[eq] = 61
    THEN [key |-> SubSeq(s, i, e - 1), from |-> FirstNotIn(s, eq + 1, Whitespace),
          to |-> ValueEnd(s, FirstNotIn(s, eq + 1, Whitespace))]
    ELSE [key |-> <<>>, from |-> 0, to |-> 0]

KvAt(s, i) ==
    IF s[i] \in NameChars
    THEN KvMatch(s, i, FirstNotIn(s, i, NameChars),
                 FirstNotIn(s, FirstNotIn(s, i, NameChars), Whitespace))
    ELSE [key |-> <<>>, from |-> 0, to |-> 0]

\* _parse_namelist_string: the matches of kv_pattern from i on, later ones
\* replacing earlier ones of the same key
RECURSIVE KeyValues(_, _, _, _)
KeyValues(s, i, m, data) ==
    IF i > Len(s) THEN data
    ELSE IF m.to = 0
    THEN KeyValues(s, i + 1, IF i + 1 > Len(s) THEN m ELSE KvAt(s, i + 1), data)
    ELSE KeyValues(s, m.to + 1, IF m.to + 1 > Len(s) THEN [m EXCEPT !.to = 0] ELSE KvAt(s, m.to + 1),
                   (Lowered(m.key) :> _clean_value(SubSeq(s, m.from, m.to))) @@ data)

_parse_namelist_string(content) ==
    IF content = <<>> THEN <<>> ELSE KeyValues(content, 1, KvAt(content, 1), <<>>)

\* Where the terminator of a namelist is found from j on: '/' or '&end' in any
\* case; [at, to], at = Len(s) + 1 if there is none
IsEnd(s, p) ==
    \/ s[p] = 47
    \/ p + 3 <= Len(s) /\ Lowered(SubSeq(s, p, p + 3)) = <<38, 101, 110, 100>>

RECURSIVE Terminator(_, _)
Terminator(s, p) ==
    IF p > Len(s) \/ IsEnd(s, p) THEN p ELSE Terminator(s, p + 1)

\* The control parameters of the namelists of namelist_re found from i on
RECURSIVE Namelists(_, _, _)
RECURSIVE Scanned(_, _, _, _, _)
Namelists(s, i, cntrl_parameters) ==
    IF i >= Len(s) THEN cntrl_parameters
    ELSE IF s[i] # 38 \/ s[i + 1] \notin NameChars THEN Namelists(s, i + 1, cntrl_parameters)
    ELSE Scanned(s, i, FirstNotIn(s, i + 1, NameChars),
                 Terminator(s, FirstNotIn(s, i + 1, NameChars)), cntrl_parameters)

\* One namelist: its name in s[i+1 .. b-1], its body in s[b .. t-1]
Scanned(s, i, b, t, cntrl_parameters) ==
    IF t > Len(s) THEN Namelists(s, i + 1, cntrl_parameters)
    ELSE Namelists(s, IF s[t] = 47 THEN t + 1 ELSE t + 4,
                   IF Lowered(SubSeq(s, i + 1, b - 1)) = <<99, 110, 116, 114, 108>>
                   THEN (<<95, 110, 97, 109, 101, 108, 105, 115, 116>>
                             :> Str(Lowered(SubSeq(s, i + 1, b - 1))))
                        @@ _parse_namelist_string(SubSeq(s, b, t - 1)) @@ cntrl_parameters
                   ELSE cntrl_parameters)

\* parse_mdin_file on the text after the title: the control parameters
parse_mdin_file(full_content) == Namelists(StripComments(full_content, 1), 1, <<>>)

-----------------------------------------------------------------------------
(* extract_prmtop_metadata (legacy_extractors/prmtop.py).  A topology file  *)
(* is the values PrmtopFile decoded for its sections, None for a cell that  *)
(* _convert_field could not decode; a section that is not in the file is    *)
(* the empty list.  The files here have the POINTERS and the BOX_DIMENSIONS *)
(* section only.  `raised` is the exception that left the function, ""      *)
(* when it returned the record.                                             *)

PrmtopMetadata ==
    [raised |-> "", natom |-> NoneV, nres |-> NoneV, nbond |-> NoneV,
     box_dimensions |-> <<>>, box_volume |-> NoneV, solvent_type |-> "Vacuum"]

Raising(md, exception) == [md EXCEPT !.raised = exception]

\* 2. Pointers: pointers[0], pointers[11], pointers[12]
Pointers(md, pointers) ==
    IF pointers = <<>> THEN md
    ELSE IF Len(pointers) < 12 THEN Raising([md EXCEPT !.natom = pointers[1]], "IndexError")
    ELSE IF Len(pointers) < 13
    THEN Raising([md EXCEPT !.natom = pointers[1], !.nres = pointers[12]], "IndexError")
    ELSE [md EXCEPT !.natom = pointers[1], !.nres = pointers[12], !.nbond = pointers[13]]

\* 4. Box: beta and the three lengths, their product, then abs(beta - 90.0)
Box(md, box_data) ==
    IF md.raised # "" \/ Len(box_data) < 4 THEN md
    ELSE IF \E i \in 2..4 : box_data[i] = NoneV
    THEN Raising([md EXCEPT !.box_dimensions = SubSeq(box_data, 2, 4)], "TypeError")
    ELSE IF box_data[1] = NoneV
    THEN Raising([md EXCEPT !.box_dimensions = SubSeq(box_data, 2, 4),
                           !.box_volume = Num(box_data[2].v * box_data[3].v * box_data[4].v)],
                "TypeError")
    ELSE [md EXCEPT !.box_dimensions = SubSeq(box_data, 2, 4),
                    !.box_volume = Num(box_data[2].v * box_data[3].v * box_data[4].v),
                    !.solvent_type = "Explicit Solvent"]

extract_prmtop_metadata(prmtop) ==
    Box(Pointers(PrmtopMetadata, prmtop.POINTERS), prmtop.BOX_DIMENSIONS)

-----------------------------------------------------------------------------
(* The TUI's ProtocolState (tui.py) *)

\* The directory "d" and the stems "p01", "p02", ...
Dir == <<100>>
P(i) == <<112, 48, 48 + i>>

(* Stage objects are mutable, so the model keeps them in a heap: a Stage is  *)
(* its position in `heap`, and `stages` and the snapshots hold positions.   *)
(* A snapshot also carries `taken`, the values it held when it was made,    *)
(* which no code reads.  _max_undo is 50 in the source; the model keeps the *)
(* last _max_undo snapshots for a smaller limit.                            *)
_max_undo == 2

Stage(name, role, files, sequence_base, sequence_index) ==
    [name |-> name, role |-> role, files |-> files, expected_gap_ps |-> NoneV,
     gap_tolerance_ps |-> NoneV, notes |-> <<>>,
     sequence_base |-> sequence_base, sequence_index |-> sequence_index]

\* The values of the Stage objects at `ids`
Values(self, ids) == [i \in DOMAIN ids |-> self.heap[ids[i]]]

\* The stages and the topology by value
View(self) == [stages |-> Values(self, self.stages), global_prmtop |-> self.global_prmtop]

UndoState(ids, global_prmtop, description, taken) ==
    [stages |-> ids, global_prmtop |-> global_prmtop, description |-> description,
     taken |-> taken]

\* ProtocolState(base_directory): no stages, no topology, empty stacks
ProtocolState ==
    [heap |-> <<>>, stages |-> <<>>, global_prmtop |-> NoPath,
     _undo_stack |-> <<>>, _redo_stack |-> <<>>]

\* The files discover_files found: the trajectories of "p01" and "p02", which
\* detect_numeric_sequences makes one sequence
DiscoveredStems == <<P(1), P(2)>>
_discovered_files(stem) == <<[kind |-> "mdcrd", path |-> join(Dir, stem \o <<46, 110, 99>>)]>>
_sequences == detect_numeric_sequences(DiscoveredStems)

\* [Stage(**{...}) for s in self.stages]: new objects with the values of the
\* live ones, put after the objects there are
Copies(self) == self.heap \o Values(self, self.stages)
CopyIds(self) == [i \in DOMAIN self.stages |-> Len(self.heap) + i]

\* The snapshot of the current state
Current(self, description) ==
    UndoState(CopyIds(self), self.global_prmtop, description, View(self))

\* Capped without the limit: no snapshot is dropped
Capped_Unbounded(stack) == stack

\* if len(self._undo_stack) > self._max_undo: self._undo_stack.pop(0)
Capped(stack) == IF Len(stack) > _max_undo THEN Tail(stack) ELSE stack

\* _save_state with the live Stage objects put into the snapshot
_save_state_Shared(self, description) ==
    [self EXCEPT !._undo_stack =
                     Capped(Append(@, UndoState(self.stages, self.global_prmtop,
                                                description, View(self)))),
                 !._redo_stack = <<>>]

_save_state(self, description) ==
    [self EXCEPT !.heap = Copies(self),
                 !._undo_stack = Capped(Append(@, Current(self, description))),
                 !._redo_stack = <<>>]

Top(stack) == stack[Len(stack)]
Pop(stack) == SubSeq(stack, 1, Len(stack) - 1)

undo(self) ==
    IF self._undo_stack = <<>> THEN self
    ELSE [self EXCEPT !.heap = Copies(self),
                      !._redo_stack = Append(@, Current(self, "(current)")),
                      !._undo_stack = Pop(@),
                      !.stages = Top(self._undo_stack).stages,
                      !.global_prmtop = Top(self._undo_stack).global_prmtop]

redo(self) ==
    IF self._redo_stack = <<>> THEN self
    ELSE [self EXCEPT !.heap = Copies(self),
                      !._undo_stack = Append(@, Current(self, "(current)")),
                      !._redo_stack = Pop(@),
                      !.stages = Top(self._redo_stack).stages,
                      !.global_prmtop = Top(self._redo_stack).global_prmtop]

\* self.stages.append(stage) for a Stage object that is new
StageAppended(self, stage) ==
    [self EXCEPT !.heap = Append(@, stage), !.stages = Append(@, Len(self.heap) + 1)]

add_stage(self, stage) == StageAppended(_save_state(self, "Add stage"), stage)

\* list.pop(index) and list.insert(index, x) for 0 <= index < len
Popped(list, index) == SubSeq(list, 1, index) \o SubSeq(list, index + 2, Len(list))
Inserted(list, index, x) ==
    SubSeq(list, 1, index) \o <<x>> \o SubSeq(list, index + 1, Len(list))

InRange(self, index) == 0 <= index /\ index < Len(self.stages)

StageRemoved(self, index) == [self EXCEPT !.stages = Popped(@, index)]

remove_stage(self, index) ==
    IF InRange(self, index) THEN StageRemoved(_save_state(self, "Remove stage"), index)
    ELSE self

StageUpdated(self, index, stage) ==
    [self EXCEPT !.heap = Append(@, stage), !.stages[index + 1] = Len(self.heap) + 1]

update_stage(self, index, stage) ==
    IF InRange(self, index)
    THEN StageUpdated(_save_state(self, "Update stage"), index, stage)
    ELSE self

StageMoved(self, from_index, to_index) ==
    [self EXCEPT !.stages = Inserted(Popped(@, from_index), to_index, @[from_index + 1])]

move_stage(self, from_index, to_index) ==
    IF InRange(self, from_index) /\ InRange(self, to_index)
    THEN StageMoved(_save_state(self, "Move stage"), from_index, to_index)
    ELSE self

set_global_prmtop(self, path) ==
    [_save_state(self, "Set global prmtop") EXCEPT !.global_prmtop = path]

\* role or infer_stage_role_from_path(stem) or ""
RoleOr(role, stem) == IF HasRole(role) THEN role ELSE infer_stage_role_from_path(stem)

\* The sequence a stem is recorded with in _discovered_files
StemInfo(stem) ==
    SequenceInfo(DiscoveredStems, CHOOSE i \in DOMAIN DiscoveredStems : DiscoveredStems[i] = stem)

CreatedStage(stem, role, info) ==
    Stage(stem, RoleOr(role, stem), _discovered_files(stem),
          IF info.has THEN Str(info.base) ELSE NoneV,
          IF info.has THEN Num(info.index) ELSE NoneV)

create_stage_from_stem(self, stem, role) ==
    IF stem \notin Range(DiscoveredStems) THEN self
    ELSE StageAppended(_save_state(self, "Create stage"), CreatedStage(stem, role, StemInfo(stem)))

\* The stages of the members from position idx + 1 on, appended in turn
RECURSIVE SequenceAppended(_, _, _, _, _)
SequenceAppended(self, base_pattern, members, idx, role) ==
    IF idx >= Len(members) THEN self
    ELSE SequenceAppended(
             IF members[idx + 1] \in Range(DiscoveredStems)
             THEN StageAppended(self, Stage(members[idx + 1], RoleOr(role, members[idx + 1]),
                                            _discovered_files(members[idx + 1]),
                                            Str(base_pattern), Num(idx)))
             ELSE self,
             base_pattern, members, idx + 1, role)

create_stages_from_sequence(self, base_pattern, role) ==
    IF \A s \in _sequences : s.base # base_pattern THEN self
    ELSE SequenceAppended(_save_state(self, "Create stages from sequence"), base_pattern,
                          (CHOOSE s \in _sequences : s.base = base_pattern).members, 0, role)

\* The user of a Stage object changes it in place: stage.notes.append(note)
Noted(self, index, note) ==
    [self EXCEPT !.heap[self.stages[index + 1]].notes = Append(@, note)]

\* The operations that save the state before they change it
Mutating ==
    {"add_stage", "remove_stage", "update_stage", "move_stage", "set_global_prmtop",
     "create_stage_from_stem", "create_stages_from_sequence"}

\* What the model remembers of the calls: how many there were, the last one,
\* whether it acted, the state it found, and the views before and after the
\* last mutating operation while undo and redo follow it at once
Fresh ==
    [self |-> ProtocolState, calls |-> 0, op |-> "", acted |-> FALSE, prior |-> ProtocolState,
     phase |-> "", before |-> View(ProtocolState), after |-> View(ProtocolState)]

PhaseAfter(op, acted) ==
    IF op \in Mutating /\ acted THEN "operated"
    ELSE IF op = "undo" /\ tui.phase = "operated" THEN "undone"
    ELSE IF op = "redo" /\ tui.phase = "undone" THEN "redone"
    ELSE ""

-----------------------------------------------------------------------------
(* The validator and the totals as a state machine *)

Idle == [pc |-> "idle"]
NoTotals == [done |-> FALSE, cut |-> 0,
             whole |-> [steps |-> 0, time_ps |-> 0],
             left |-> [steps |-> 0, time_ps |-> 0],
             right |-> [steps |-> 0, time_ps |-> 0]]

\* A caller runs protocol.validate(cross_stage)
Validate(cross_stage) ==
    /\ Len(runs) < MaxRuns
    /\ stages' = ProtocolValidate(stages, cross_stage)
    /\ runs' = Append(runs, cross_stage)
    /\ first' = IF runs = <<>> THEN stages' ELSE first
    /\ UNCHANGED <<tot, build, ser, stats, log, tui>>

\* A caller computes the totals of the protocol and of the two protocols it
\* splits into after its first `cut` stages
Totals(cut) ==
    /\ tot' = [done |-> TRUE, cut |-> cut,
               whole |-> totals(stages),
               left |-> totals(SubSeq(stages, 1, cut)),
               right |-> totals(SubSeq(stages, cut + 1, Len(stages)))]
    /\ UNCHANGED <<stages, runs, first, build, ser, stats, log, tui>>

\* The assembler has returned or raised
BuildDone(op, fs, args, out) ==
    /\ build' = [pc |-> "done", op |-> op, fs |-> fs, args |-> args,
                 raised |-> out.raised, message |-> out.message, parsed |-> out.parsed]
    /\ stages' = out.stages
    /\ UNCHANGED <<runs, first, tot, ser, stats, log, tui>>

\* A caller runs auto_discover(directory, **args) on the directory fs
AutoDiscover(fs, args) ==
    /\ build.pc = "idle"
    /\ BuildDone("auto_discover", fs, args, auto_discover(fs, args))

\* A call of the TUI on its ProtocolState has returned
Called(op, acted, self) ==
    /\ tui.calls < MaxCalls
    /\ tui' = [self |-> self, calls |-> tui.calls + 1, op |-> op, acted |-> acted,
               prior |-> tui.self, phase |-> PhaseAfter(op, acted),
               before |-> IF op \in Mutating /\ acted THEN View(tui.self) ELSE tui.before,
               after |-> IF op \in Mutating /\ acted THEN View(self) ELSE tui.after]
    /\ UNCHANGED <<stages, runs, first, tot, build, ser, stats, log>>

AddStage(stage) ==
    /\ Len(tui.self.stages) < MaxStages
    /\ Called("add_stage", TRUE, add_stage(tui.self, stage))

RemoveStage(index) ==
    Called("remove_stage", InRange(tui.self, index), remove_stage(tui.self, index))

UpdateStage(index, stage) ==
    Called("update_stage", InRange(tui.self, index), update_stage(tui.self, index, stage))

MoveStage(from_index, to_index) ==
    Called("move_stage", InRange(tui.self, from_index) /\ InRange(tui.self, to_index),
           move_stage(tui.self, from_index, to_index))

SetGlobalPrmtop(path) ==
    Called("set_global_prmtop", TRUE, set_global_prmtop(tui.self, path))

CreateStageFromStem(stem) ==
    /\ Len(tui.self.stages) < MaxStages
    /\ Called("create_stage_from_stem", stem \in Range(DiscoveredStems),
              create_stage_from_stem(tui.self, stem, NoRole))

CreateStagesFromSequence(base_pattern) ==
    /\ Len(tui.self.stages) + Len(DiscoveredStems) <= MaxStages
    /\ Called("create_stages_from_sequence", \E s \in _sequences : s.base = base_pattern,
              create_stages_from_sequence(tui.self, base_pattern, NoRole))

Undo == Called("undo", tui.self._undo_stack # <<>>, undo(tui.self))

Redo == Called("redo", tui.self._redo_stack # <<>>, redo(tui.self))

\* The user changes the first stage in place
EditStage ==
    /\ tui.self.stages # <<>>
    /\ tui.self.heap[tui.self.stages[1]].notes = <<>>
    /\ Called("edit", TRUE, Noted(tui.self, 0, "note"))

\* A caller runs ProtocolBuilder.build() on a builder for the directory fs
BuilderBuild(fs, self) ==
    /\ build.pc = "idle"
    /\ BuildDone("build", fs, self, build_protocol(fs, self))

\* A user runs `ambermeta plan` in the directory fs
PlanCommand(fs, plan) ==
    /\ build.pc = "idle"
    /\ BuildDone("plan", fs, plan, _plan_command(fs, plan))

\* The walk has returned or raised
Serialized(heap, out) ==
    /\ ser' = [pc |-> "done", heap |-> heap, raised |-> out.raised,
               circular |-> out.circular, unwalked |-> out.unwalked]
    /\ UNCHANGED <<stages, runs, first, tot, build, stats, log, tui>>

\* A caller runs _serialize_value(value) on the object `value` of the heap
Serialize(heap, value) ==
    /\ ser.pc = "idle"
    /\ Serialized(heap, _serialize_value(heap, value, 0, FALSE, {}, 1))

\* A caller runs _prune_methods_value(value)
Prune(value) ==
    /\ ser.pc = "idle"
    /\ ser' = [pc |-> "done", value |-> value, out |-> _prune_methods_value(value)]
    /\ UNCHANGED <<stages, runs, first, tot, build, stats, log, tui>>

\* A frame of the log gives a value that is added to the statistics
Add(value) ==
    /\ stats.count < MaxSamples
    /\ stats' = add(stats, value)
    /\ UNCHANGED <<stages, runs, first, tot, build, ser, log, tui>>

\* parse_mdout(filepath) opens a file of these lines
ParseMdout(lines) ==
    /\ log.pc = "idle"
    /\ log' = [pc |-> IF lines = <<>> THEN "done" ELSE "reading", lines |-> lines, i |-> 1,
               in_summary_section |-> FALSE, count |-> 0, temps |-> <<>>]
    /\ UNCHANGED <<stages, runs, first, tot, build, ser, stats, tui>>

\* The loop of parse_mdout reads its next line
ReadLine ==
    /\ log.pc = "reading"
    /\ log' = Iterated(log, log.i, log.in_summary_section \/ log.lines[log.i].header)
    /\ UNCHANGED <<stages, runs, first, tot, build, ser, stats, tui>>

\* A caller runs parse_mdin_file on a deck: a title line and `content`
ParseMdin(content) ==
    /\ ser.pc = "idle"
    /\ ser' = [pc |-> "done", file |-> content, out |-> parse_mdin_file(content)]
    /\ UNCHANGED <<stages, runs, first, tot, build, stats, log, tui>>

\* A caller runs smart_group_files on a directory
GroupFiles(fs) ==
    /\ ser.pc = "idle"
    /\ ser' = [pc |-> "done", file |-> fs, out |-> smart_group_files(fs)]
    /\ UNCHANGED <<stages, runs, first, tot, build, stats, log, tui>>

\* A caller runs detect_numeric_sequences on a list of names
DetectSequences(filenames) ==
    /\ ser.pc = "idle"
    /\ ser' = [pc |-> "done", file |-> filenames, out |-> detect_numeric_sequences(filenames)]
    /\ UNCHANGED <<stages, runs, first, tot, build, stats, log, tui>>

\* A caller runs extract_prmtop_metadata on a readable file
ExtractPrmtop(prmtop) ==
    /\ ser.pc = "idle"
    /\ ser' = [pc |-> "done", file |-> prmtop, out |-> extract_prmtop_metadata(prmtop)]
    /\ UNCHANGED <<stages, runs, first, tot, build, stats, log, tui>>

\* A caller runs parse_inpcrd on a file that exists
ParseInpcrd(file, HAS_NETCDF) ==
    /\ ser.pc = "idle"
    /\ ser' = [pc |-> "done", file |-> file, out |-> parse_inpcrd(file, HAS_NETCDF)]
    /\ UNCHANGED <<stages, runs, first, tot, build, stats, log, tui>>

NextValidate == \E cross_stage \in BOOLEAN : Validate(cross_stage)
NextTotals == \E cut \in 0..Len(stages) : Totals(cut)

\* Stage names: strings are sequences of character codes; these are "a", "b", ...
StageName(i) == <<96 + i>>

\* The protocols of 1..MaxStages stages whose i-th stage is named StageName(i)
\* and lies in family[n][i], n the number of stages
RECURSIVE ProtocolsUpTo(_, _, _)
ProtocolsUpTo(family, n, k) ==
    IF k = 0 THEN {<<>>}
    ELSE { Append(ss, s) : ss \in ProtocolsUpTo(family, n, k - 1), s \in family[n][k] }

Protocols(family) == UNION { ProtocolsUpTo(family, n, n) : n \in 1..MaxStages }

Sizes == 1..MaxStages

InitRest ==
    /\ runs = <<>>
    /\ first = <<>>
    /\ tot = NoTotals
    /\ build = Idle
    /\ ser = Idle
    /\ stats = StreamingStats
    /\ log = Idle
    /\ tui = Fresh

(* Stages that differ in the atom counts their records report: 10 and 12 are *)
(* the counts of test_auto_discover_validates_each_stage_once.               *)
AtomStages(i, n) ==
    { [NewStage(StageName(i)) EXCEPT !.prmtop = p, !.inpcrd = c, !.mdout = o, !.mdcrd = x] :
        p \in {NoPrmtop, Prmtop(Num(10)), Prmtop(Num(12))},
        c \in {NoInpcrd, Inpcrd(10, NoneV), Inpcrd(12, NoneV)},
        o \in {NoMdout, Mdout(10, 0, PS \div 1000)},
        x \in {NoMdcrd, Mdcrd(12, NoneV, NoneV)} }

InitAtoms ==
    /\ stages \in Protocols([n \in Sizes |-> [i \in 1..n |-> AtomStages(i, n)]])
    /\ InitRest
SpecAtoms == InitAtoms /\ [][NextValidate]_vars

(* Stages that differ in what continuity reads: the trajectory's end time   *)
(* and frame interval, the restart's time, the stated expectation.  The     *)
(* times lie around EndTime: 1 and 2 units (1e-6 and 2e-6 ps) and half a    *)
(* picosecond away, the 1000.0 / 1000.5 ps of the two-stage scenario.       *)
EndTime == 1000 * PS
HalfPs == PS \div 2

GapMdcrds ==
    {NoMdcrd} \cup { Mdcrd(0, e, d) : e \in {NoneV, Num(EndTime)},
                                      d \in {NoneV, Num(HalfPs), Num(2 * PS)} }
GapInpcrds ==
    {NoInpcrd} \cup { Inpcrd(0, t) : t \in {NoneV, Num(EndTime - 1), Num(EndTime),
                                           Num(EndTime + 2), Num(EndTime + HalfPs)} }
GapExpectations ==
    { <<NoneV, NoneV>>, <<Num(0), NoneV>>, <<Num(HalfPs), Num(PS \div 10)>> }

\* Of n > 1 stages the one before the last takes every trajectory and the last
\* every restart and expectation; every stage but the last takes two restarts,
\* and the stages before the last two take two trajectories
GapStages(i, n) ==
    { [NewStage(StageName(i)) EXCEPT !.mdcrd = x, !.inpcrd = c,
                                    !.expected_gap_ps = g[1], !.gap_tolerance_ps = g[2]] :
        x \in IF i = n /\ n > 1 THEN {NoMdcrd}
              ELSE IF i >= n - 1 THEN GapMdcrds
              ELSE {NoMdcrd, Mdcrd(0, Num(EndTime), Num(HalfPs))},
        c \in IF i = n /\ n > 1 THEN GapInpcrds
              ELSE {NoInpcrd, Inpcrd(0, Num(EndTime))},
        g \in IF i = n /\ n > 1 THEN GapExpectations ELSE {<<NoneV, NoneV>>} }

InitGap ==
    /\ stages \in Protocols([n \in Sizes |-> [i \in 1..n |-> GapStages(i, n)]])
    /\ InitRest
SpecGap == InitGap /\ [][NextValidate]_vars

(* Stages that differ in their input deck's step count and timestep: absent, *)
(* 0, a number, or a shell placeholder kept as a string.                     *)
DeckLengths == {NoneV, Num(0), Num(1000), Num(5000), Str(1)}
DeckTimesteps == {NoneV, Num(PS \div 500), Num(PS \div 250), Str(2)}

TotalsStages(i, n) ==
    {NewStage(StageName(i))}
    \cup { [NewStage(StageName(i)) EXCEPT !.mdin = Mdin(l, d)] :
             l \in DeckLengths, d \in DeckTimesteps }

InitTotals ==
    /\ stages \in Protocols([n \in Sizes |-> [i \in 1..n |-> TotalsStages(i, n)]])
    /\ InitRest
SpecTotals == InitTotals /\ [][NextTotals]_vars

(* The assembler's inputs.  The directory is "d"; stems are "p01", "p02",  *)
(* ... (a numbered sequence), "min" and "Z"; files are a stem and an        *)
(* extension, and hold the record of the extension's kind.                  *)
MinStem == <<109, 105, 110>>
ZStem == <<90>>

DeckFile(stem) ==
    File(stem \o <<46, 105, 110>>,
         [Mdin(Num(1000), Num(PS \div 500)) EXCEPT !.stage_role = Role("Energy minimization")])
LogFile(stem) == File(stem \o <<46, 111, 117, 116>>, Mdout(10, 1000, PS \div 500))
TrajFile(stem) == File(stem \o <<46, 110, 99>>, Mdcrd(10, Num(EndTime), Num(HalfPs)))
RestartFile(stem, time) == File(stem \o <<46, 114, 115, 116, 55>>, Inpcrd(10, time))
TopFile(stem) == File(stem \o <<46, 112, 114, 109, 116, 111, 112>>, Prmtop(Num(10)))

\* The sequences of at most n distinct members of S
RECURSIVE Arrangements(_, _)
Arrangements(S, n) ==
    IF n = 0 THEN {<<>>}
    ELSE LET shorter == Arrangements(S, n - 1)
         IN  shorter \cup UNION { { Append(q, x) : x \in S \ Range(q) } : q \in shorter }

Args(manifest) ==
    [manifest |-> manifest, grouping_rules |-> <<>>, include_roles |-> {},
     include_stems |-> {}, restart_files |-> <<>>, skip_cross_stage_validation |-> FALSE,
     auto_detect_restarts |-> FALSE, global_prmtop |-> NoPath, hmr_prmtop |-> NoPath]

(* Manifests of up to MaxStages entries.  An entry has one of the names     *)
(* "p02", "min" or none, and one of four shapes: nothing but the            *)
(* name; a role and a trajectory; a deck; a role, a trajectory and a        *)
(* restart under `files` with a None trajectory at the top level.  The keys *)
(* of a mapping are "k8", "k7", ...: not in sorted order.  What exists is   *)
(* every file the entries can name, two of them, or none.                   *)
OrderShapes ==
    { [stage_role |-> NoRole, top |-> <<>>, files |-> <<>>],
      [stage_role |-> Role("production"), top |-> <<>>,
       files |-> <<Ref("mdcrd", PathV(TrajFile(P(1)).name))>>],
      [stage_role |-> NoRole, top |-> <<Ref("mdin", PathV(DeckFile(MinStem).name))>>,
       files |-> <<>>],
      [stage_role |-> Role("production"), top |-> <<Ref("mdcrd", NoPath)>>,
       files |-> <<Ref("mdcrd", PathV(TrajFile(P(2)).name)),
                   Ref("inpcrd", PathV(RestartFile(P(1), NoneV).name))>>] }

OrderEntries ==
    { Entry(name, shape.stage_role, shape.top, shape.files, NoGap) :
        name \in {NoPath, PathV(P(2)), PathV(MinStem)},
        shape \in OrderShapes }

RECURSIVE EntryLists(_, _)
EntryLists(entries, n) ==
    IF n = 0 THEN {<<>>}
    ELSE LET shorter == EntryLists(entries, n - 1)
         IN  shorter \cup { Append(q, e) : q \in {x \in shorter : Len(x) = n - 1},
                                           e \in entries }

OrderManifests ==
    { ListManifest(q) : q \in EntryLists(OrderEntries, MaxStages) }
    \cup { DictManifest([i \in DOMAIN q |-> Item(<<107, 57 - i>>, q[i])]) :
             q \in EntryLists(OrderEntries, MaxStages) }

OrderListings ==
    { <<>>,
      <<DeckFile(MinStem), TrajFile(P(1))>>,
      <<DeckFile(MinStem), TrajFile(P(1)), TrajFile(P(2)), RestartFile(P(1), NoneV)>> }

OrderFilters ==
    { [include_roles |-> r, include_stems |-> n] :
        r \in {{}, {"production"}}, n \in {{}, {P(2), MinStem}} }

\* auto_discover with one of the manifests
NextManifest ==
    /\ build.pc = "idle"
    /\ \E listing \in OrderListings, manifest \in OrderManifests, f \in OrderFilters :
        AutoDiscover([directory |-> Dir, listing |-> listing],
                     [Args(manifest) EXCEPT !.include_roles = f.include_roles,
                                            !.include_stems = f.include_stems])

(* Directories to discover: up to MaxFiles of five files, in every order,   *)
(* with and without a grouping rule for the stems that contain "p0".        *)
OrderFiles ==
    { DeckFile(MinStem), TrajFile(P(1)), TrajFile(P(2)), DeckFile(P(2)), LogFile(ZStem) }

OrderRules == {<<>>, <<[pattern |-> <<112, 48>>, role |-> "production"]>>}

\* auto_discover on one of the directories
NextDirectory ==
    /\ build.pc = "idle"
    /\ \E listing \in Arrangements(OrderFiles, MaxFiles), f \in OrderFilters,
       rules \in OrderRules :
        AutoDiscover([directory |-> Dir, listing |-> listing],
                     [Args(NoManifest) EXCEPT !.include_roles = f.include_roles,
                                              !.include_stems = f.include_stems,
                                              !.grouping_rules = rules])

(* A chain of stages "p01", "p02", ...: every stage has written its         *)
(* trajectory, which ends at EndTime; the restart "p01.rst7" is missing, or *)
(* carries no time, EndTime, or EndTime + 0.5 ps; "p02.rst7" and "eq.rst7"  *)
(* carry EndTime.  The listing gives the trajectories, the topology         *)
(* "sys.prmtop" and then up to MaxFiles - 1 of the restarts in any order.   *)
EqStem == <<101, 113>>
SysStem == <<115, 121, 115>>

ChainRestarts ==
    { RestartFile(P(1), t) : t \in {NoneV, Num(EndTime), Num(EndTime + HalfPs)} }
    \cup { RestartFile(P(2), Num(EndTime)), RestartFile(EqStem, Num(EndTime)) }

ChainListings ==
    { [i \in 1..MaxStages |-> TrajFile(P(i))] \o <<TopFile(SysStem)>> \o q :
        q \in { x \in Arrangements(ChainRestarts, MaxFiles - 1) :
                  \A i, j \in DOMAIN x : x[i].name = x[j].name => i = j } }

\* Stage i of the chain as a manifest entry: its trajectory, with or without
\* the restart of the stage before it and an expected gap of 0.5 ps
ChainEntries(i) ==
    { Entry(PathV(P(i)), Role("production"),
            <<Ref("mdcrd", PathV(TrajFile(P(i)).name))>> \o restart, <<>>, gaps) :
        restart \in {<<>>} \cup (IF i > 1
                                 THEN {<<Ref("inpcrd", PathV(RestartFile(P(i - 1), NoneV).name))>>}
                                 ELSE {}),
        gaps \in IF i > 1 THEN {NoGap, GapNumber(HalfPs)} ELSE {NoGap} }

ChainManifests ==
    { ListManifest(q) : q \in Protocols([n \in Sizes |-> [i \in 1..n |-> ChainEntries(i)]]) }

\* restart_files: none, or "p01.rst7" for the stage "p02" when it exists
ChainRestartFiles(listing) ==
    {<<>>} \cup (IF \E i \in DOMAIN listing : listing[i].name = RestartFile(P(1), NoneV).name
                 THEN {<<[key |-> P(2), path |-> join(Dir, RestartFile(P(1), NoneV).name)]>>}
                 ELSE {})

\* restart_files and global_prmtop: neither, the topology, or a restart file
ChainGiven(listing) ==
    { <<<<>>, NoPath>>, <<<<>>, PathV(TopFile(SysStem).name)>> }
    \cup { <<r, NoPath>> : r \in ChainRestartFiles(listing) }

\* auto_discover on the chain, by manifest or by discovery
NextChain ==
    /\ build.pc = "idle"
    /\ \E listing \in ChainListings, manifest \in ChainManifests \cup {NoManifest},
       detect \in BOOLEAN, skip \in BOOLEAN :
        \E given \in ChainGiven(listing) :
            AutoDiscover([directory |-> Dir, listing |-> listing],
                         [Args(manifest) EXCEPT !.auto_detect_restarts = detect,
                                                !.skip_cross_stage_validation = skip,
                                                !.restart_files = given[1],
                                                !.global_prmtop = given[2]])

\* `ambermeta plan` on the chain, the manifest read from a file or typed in
NextPlan ==
    /\ build.pc = "idle"
    /\ \E listing \in ChainListings, manifest \in ChainManifests \cup {ListManifest(<<>>)},
       typed \in BOOLEAN, detect \in BOOLEAN, skip \in BOOLEAN :
        PlanCommand([directory |-> Dir, listing |-> listing],
                    [manifest |-> manifest, typed |-> typed,
                     auto_detect_restarts |-> detect,
                     skip_cross_stage_validation |-> skip])

(* Stages with and without a topology of their own.  "f.in" is a deck with  *)
(* dt = 0.004 ps and "f.out" a log with it, "s.in" a deck with dt = 0.002   *)
(* ps; "f.prmtop" and "s.prmtop" hold 10 atoms, the global topology         *)
(* "sys.prmtop" 11 and the HMR topology "hmr.prmtop" 12.                    *)
FStem == <<102>>
SStem == <<115>>
HmrStem == <<104, 109, 114>>
HmrDt == PS \div 250

FastDeck == File(FStem \o <<46, 105, 110>>, Mdin(Num(1000), Num(HmrDt)))
FastLog == File(FStem \o <<46, 111, 117, 116>>, Mdout(10, 1000, HmrDt))
SlowDeck == File(SStem \o <<46, 105, 110>>, Mdin(Num(1000), Num(HmrDt \div 2)))
TopologyFile(stem, natom) ==
    File(stem \o <<46, 112, 114, 109, 116, 111, 112>>, Prmtop(Num(natom)))
GlobalTop == TopologyFile(SysStem, 11)
HmrTop == TopologyFile(HmrStem, 12)

\* global_prmtop and hmr_prmtop: each given or not
TopologyGiven ==
    { [global_prmtop |-> g, hmr_prmtop |-> h] :
        g \in {NoPath, PathV(GlobalTop.name)}, h \in {NoPath, PathV(HmrTop.name)} }

\* A manifest entry: no deck or log, the slow deck, the fast deck or the fast
\* log, with or without a topology of its own
TopologyEntries(i) ==
    { Entry(PathV(P(i)), Role("production"), run \o top, <<>>, NoGap) :
        run \in { <<>>, <<Ref("mdin", PathV(SlowDeck.name))>>,
                  <<Ref("mdin", PathV(FastDeck.name))>>,
                  <<Ref("mdout", PathV(FastLog.name))>> },
        top \in { <<>>, <<Ref("prmtop", PathV(TopologyFile(FStem, 10).name))>> } }

TopologyManifests ==
    { ListManifest(q) : q \in Protocols([n \in Sizes |-> [i \in 1..n |-> TopologyEntries(i)]]) }

TopologyFiles == {FastDeck, FastLog, SlowDeck, TopologyFile(FStem, 10), TopologyFile(SStem, 10)}

\* auto_discover with a global and an HMR topology, by manifest or by discovery
NextTopology ==
    /\ build.pc = "idle"
    /\ \E given \in TopologyGiven :
        \/ \E manifest \in TopologyManifests :
            AutoDiscover([directory |-> Dir,
                          listing |-> <<FastDeck, FastLog, SlowDeck, TopologyFile(FStem, 10),
                                        GlobalTop, HmrTop>>],
                         [Args(manifest) EXCEPT !.global_prmtop = given.global_prmtop,
                                                !.hmr_prmtop = given.hmr_prmtop])
        \/ \E listing \in Arrangements(TopologyFiles, MaxFiles) :
            AutoDiscover([directory |-> Dir, listing |-> listing \o <<GlobalTop, HmrTop>>],
                         [Args(NoManifest) EXCEPT !.global_prmtop = given.global_prmtop,
                                                  !.hmr_prmtop = given.hmr_prmtop])

(* Manifests that state gaps: stage i is "p0i" with its trajectory and,     *)
(* after the first, the restart "p01.rst7", whose time is the end of the    *)
(* trajectories or 0.5 ps later; `gaps` is a number or a record, with 0 and *)
(* 0.5 ps as the expected gap and 0 and 1 ps as the tolerance.              *)
StatedGaps ==
    { GapNumber(n) : n \in {0, HalfPs} }
    \cup { GapRecord(e, t) : e \in {NoneV, Num(0), Num(HalfPs)}, t \in {NoneV, Num(0), Num(PS)} }

GapsEntries(i) ==
    { Entry(PathV(P(i)), Role("production"),
            <<Ref("mdcrd", PathV(TrajFile(P(i)).name))>>
            \o (IF i > 1 THEN <<Ref("inpcrd", PathV(RestartFile(P(1), NoneV).name))>> ELSE <<>>),
            <<>>, gaps) :
        gaps \in IF i > 1 THEN StatedGaps ELSE {NoGap, GapNumber(0)} }

GapsManifests ==
    { ListManifest(q) : q \in Protocols([n \in Sizes |-> [i \in 1..n |-> GapsEntries(i)]]) }

\* auto_discover with a manifest that states gaps
NextGaps ==
    /\ build.pc = "idle"
    /\ \E manifest \in GapsManifests, time \in {EndTime, EndTime + HalfPs} :
        AutoDiscover([directory |-> Dir,
                      listing |-> [i \in 1..MaxStages |-> TrajFile(P(i))]
                                  \o <<RestartFile(P(1), Num(time))>>],
                     Args(manifest))

NextBuild ==
    NextManifest \/ NextDirectory \/ NextChain \/ NextPlan \/ NextTopology \/ NextGaps

InitBuild ==
    /\ stages = <<>>
    /\ InitRest
SpecBuild == InitBuild /\ [][NextBuild]_vars

(* Directories for the builder: topologies of 10 atoms and restarts of 12  *)
(* atoms for "p01" and "p02", the trajectory of "p01" and a restart of 10   *)
(* atoms for "p02", up to MaxFiles of them with no name twice; the builder  *)
(* validates across stages or not, and has a tolerance for "p02" or none.   *)
BuilderFiles ==
    { TopFile(P(1)), TopFile(P(2)), TrajFile(P(1)), RestartFile(P(2), Num(EndTime)),
      File(P(1) \o <<46, 114, 115, 116, 55>>, Inpcrd(12, NoneV)),
      File(P(2) \o <<46, 114, 115, 116, 55>>, Inpcrd(12, NoneV)) }

BuilderListings ==
    { q \in Arrangements(BuilderFiles, MaxFiles) :
        \A i, j \in DOMAIN q : q[i].name = q[j].name => i = j }

BuilderTolerances == { <<>>, <<[name |-> P(2), expected |-> 0, tolerance |-> PS \div 10]>> }

NextBuilder ==
    /\ build.pc = "idle"
    /\ \E listing \in BuilderListings, skip \in BOOLEAN, tolerances \in BuilderTolerances :
        BuilderBuild([directory |-> Dir, listing |-> listing],
                     [args |-> [Args(NoManifest) EXCEPT !.skip_cross_stage_validation = skip],
                      _stage_tolerances |-> tolerances])

SpecBuilder == InitBuild /\ [][NextBuilder]_vars

(* Sessions of the TUI of up to MaxCalls calls.  Stages "a" are added and   *)
(* stages "b" put in their place; an index is -1, 0, the last one or the    *)
(* one after it; the stems are "p01", found in the directory, and "eq",     *)
(* not found; the sequences are "p" and "eq".                               *)
NextTui ==
    \/ AddStage(Stage(<<97>>, NoRole, <<>>, NoneV, NoneV))
    \/ \E index \in {0 - 1, 0, Len(tui.self.stages)} : RemoveStage(index)
    \/ \E index \in {0, Len(tui.self.stages)} :
         UpdateStage(index, Stage(<<98>>, Role("production"), <<>>, NoneV, NoneV))
    \/ \E from_index \in {0, Len(tui.self.stages) - 1}, to_index \in {0, Len(tui.self.stages)} :
         MoveStage(from_index, to_index)
    \/ \E path \in {NoPath, PathV(SysStem \o <<46, 112, 114, 109, 116, 111, 112>>)} :
         SetGlobalPrmtop(path)
    \/ \E stem \in {P(1), EqStem} : CreateStageFromStem(stem)
    \/ \E base_pattern \in {<<112>>, EqStem} : CreateStagesFromSequence(base_pattern)
    \/ Undo
    \/ Redo
    \/ EditStage

SpecTui == InitBuild /\ [][NextTui]_vars

(* Value graphs of up to MaxNodes objects, each of any kind and holding up   *)
(* to two objects of the graph, itself included; the value serialized is    *)
(* object 1.                                                                *)
Kinds == {"list", "dict", "dataclass", "to_dict", "object"}

Objects(n) ==
    { [kind |-> "scalar", kids |-> <<>>] }
    \cup { [kind |-> k, kids |-> q] :
              k \in Kinds,
              q \in {<<>>} \cup { <<a>> : a \in 1..n } \cup { <<a, b>> : a, b \in 1..n } }

Heaps == UNION { [1..n -> Objects(n)] : n \in 1..MaxNodes }

NextSerialize ==
    /\ ser.pc = "idle"
    /\ \E heap \in Heaps : Serialize(heap, 1)

SpecSerialize == InitBuild /\ [][NextSerialize]_vars

(* Payloads of up to MaxSize values: the leaves are None, False, 0, "" and  *)
(* "x"; a dict has the keys 1, 2, ... in order.                             *)
Leaves ==
    { Leaf("none", ""), Leaf("bool", "False"), Leaf("int", "0"), Leaf("str", ""),
      Leaf("str", "x") }

\* The payloads of exactly n values, and the sequences of payloads of n values
\* in all
RECURSIVE PayloadsOf(_)
RECURSIVE EntriesOf(_)
EntriesOf(n) ==
    IF n = 0 THEN {<<>>}
    ELSE UNION { { <<p>> \o q : p \in PayloadsOf(k), q \in EntriesOf(n - k) } : k \in 1..n }

PayloadsOf(n) ==
    IF n = 1 THEN Leaves \cup {Container("list", <<>>), Container("dict", <<>>)}
    ELSE { Container("list", [i \in DOMAIN q |-> Keyed(0, q[i])]) : q \in EntriesOf(n - 1) }
         \cup { Container("dict", [i \in DOMAIN q |-> Keyed(i, q[i])]) : q \in EntriesOf(n - 1) }

Payloads == UNION { PayloadsOf(n) : n \in 1..MaxSize }

NextPrune ==
    /\ ser.pc = "idle"
    /\ \E value \in Payloads : Prune(value)

SpecPrune == InitBuild /\ [][NextPrune]_vars

(* Samples: -1.5, 0.25, 1.0, 3.0 and 7.0, each a float. *)
Samples == {0 - 24, 4, 16, 48, 112}

NextStats == \E value \in Samples : Add(value)

SpecStats == InitBuild /\ [][NextStats]_vars

(* Logs of up to MaxLines lines, each one of: a frame's first line with a   *)
(* temperature (300 or 310 K), a summary header, a clearing title, a line   *)
(* of dashes, a line of other energies, an anchor on the line of a header,  *)
(* an anchor on the line of a clearing title.                               *)
LogLines ==
    { Line(TRUE, FALSE, FALSE, FALSE, Num(t)) : t \in {300, 310} }
    \cup { Line(FALSE, TRUE, FALSE, FALSE, NoneV), Line(FALSE, FALSE, TRUE, FALSE, NoneV),
           Line(FALSE, FALSE, FALSE, TRUE, NoneV), Line(FALSE, FALSE, FALSE, FALSE, NoneV),
           Line(TRUE, TRUE, FALSE, FALSE, Num(300)), Line(TRUE, FALSE, TRUE, FALSE, Num(300)) }

Logs == UNION { [1..n -> LogLines] : n \in 0..MaxLines }

NextLog == (\E lines \in Logs : ParseMdout(lines)) \/ ReadLine

SpecLog == InitBuild /\ [][NextLog]_vars

(* Restart files.  ASCII ones start with a title that begins "defa", "CDFa" *)
(* or "CD" and hold no second line, a blank or unreadable one, or NATOM in  *)
(* 1..MaxAtoms followed by 0..2L+2 body lines; there is the file of no      *)
(* bytes; NetCDF files start with 'C' 'D' 'F' and the version byte 1 or 2.  *)
NoNetcdf == [valid |-> FALSE, atom |-> 0, coordinates |-> FALSE, velocities |-> FALSE,
             cell_lengths |-> FALSE]

AsciiHeads == { <<100, 101, 102, 97>>, <<67, 68, 70, 97>>, <<67, 68>> }

AsciiFiles ==
    { [head |-> <<>>, lines |-> 0, second |-> NoneV, netcdf |-> NoNetcdf] }
    \cup { [head |-> h, lines |-> IF s = "none" THEN 1 ELSE 2,
            second |-> [t |-> s, v |-> 0], netcdf |-> NoNetcdf] :
             h \in AsciiHeads, s \in {"none", "blank", "bad"} }
    \cup UNION { { [head |-> h, lines |-> 2 + b, second |-> Num(n), netcdf |-> NoNetcdf] :
                    h \in AsciiHeads, b \in 0..(2 * lines_per_structure(n) + 2) } :
                  n \in 1..MaxAtoms }

NetcdfFiles ==
    { [head |-> <<67, 68, 70, version>>, lines |-> 1, second |-> NoneV,
       netcdf |-> [valid |-> TRUE, atom |-> MaxAtoms, coordinates |-> TRUE,
                   velocities |-> v, cell_lengths |-> c]] :
        version \in {1, 2}, v \in BOOLEAN, c \in BOOLEAN }

NextRestart ==
    /\ ser.pc = "idle"
    /\ \E file \in AsciiFiles \cup NetcdfFiles, HAS_NETCDF \in BOOLEAN :
        ParseInpcrd(file, HAS_NETCDF)

SpecRestart == InitBuild /\ [][NextRestart]_vars

(* Input decks.  After the title, the deck is "&cntrl\n k=" and a value,    *)
(* then "\n/\n".  The value is a placeholder ${...} or $(...) whose text is *)
(* one or two of 'a', '/', '#', '!' and the blank, alone or followed by     *)
(* 'a' or by another placeholder.                                           *)
MaxText == 2

Texts == UNION { [1..n -> {97, 47, 35, 33, 32}] : n \in 1..MaxText }

Placeholders == { <<36, 123>> \o t \o <<125>> : t \in Texts }
                \cup { <<36, 40>> \o t \o <<41>> : t \in Texts }

Followers == { <<>>, <<97>>, <<36, 123, 97, 125>>, <<36, 40, 97, 41>> }

Deck(value) == <<38, 99, 110, 116, 114, 108, 10, 32, 107, 61>> \o value \o <<10, 47, 10>>

NextDeck ==
    /\ ser.pc = "idle"
    /\ \E p \in Placeholders, f \in Followers : ParseMdin(Deck(p \o f))

SpecDeck == InitBuild /\ [][NextDeck]_vars

(* Topology files.  POINTERS holds 0..MaxPointers values, the first of them *)
(* readable or not; BOX_DIMENSIONS is absent or holds three to five cells,  *)
(* at most one of them unreadable.                                          *)
MaxPointers == 14

PointerBlocks ==
    UNION { { [i \in 1..n |-> IF i = 1 THEN first_cell ELSE Num(i)] :
                first_cell \in {Num(1), NoneV} } : n \in 0..MaxPointers }

BoxBlocks ==
    { <<>> } \cup
    UNION { { [i \in 1..n |-> IF i = bad THEN NoneV ELSE IF i = 1 THEN Num(90) ELSE Num(10)] :
                bad \in 0..n } : n \in 3..5 }

NextPrmtop ==
    /\ ser.pc = "idle"
    /\ \E pointers \in PointerBlocks, box_data \in BoxBlocks :
        ExtractPrmtop([POINTERS |-> pointers, BOX_DIMENSIONS |-> box_data])

SpecPrmtop == InitBuild /\ [][NextPrmtop]_vars

(* Listings with files of one kind under one stem: "prod.rst", "prod.rst7" *)
(* (restarts), "prod.nc", "prod.crd" (trajectories), "eq.rst" and          *)
(* "eq.rst7", up to MaxFiles of them in any order.                          *)
ProdStem == <<112, 114, 111, 100>>

SameKindFiles ==
    { File(stem \o ext, NoneV) :
        stem \in {ProdStem, EqStem},
        ext \in { <<46, 114, 115, 116>>, <<46, 114, 115, 116, 55>> } }
    \cup { File(ProdStem \o ext, NoneV) : ext \in { <<46, 110, 99>>, <<46, 99, 114, 100>> } }

NextListing ==
    /\ ser.pc = "idle"
    /\ \E listing \in Arrangements(SameKindFiles, MaxFiles) :
        GroupFiles([directory |-> Dir, listing |-> listing])

SpecListing == InitBuild /\ [][NextListing]_vars

(* Lists of names for the sequence detection: "run01", "run02", "run-03",  *)
(* "run/01a", "run/02a" and "eq", up to MaxNames of them in any order.      *)
MaxNames == 4

RunStem == <<114, 117, 110>>

SequenceNames ==
    { RunStem \o <<48, 49>>, RunStem \o <<48, 50>>, RunStem \o <<45, 48, 51>>,
      RunStem \o <<47, 48, 49, 97>>, RunStem \o <<47, 48, 50, 97>>, EqStem }

NextSequences ==
    /\ ser.pc = "idle"
    /\ \E filenames \in Arrangements(SequenceNames, MaxNames) : DetectSequences(filenames)

SpecSequences == InitBuild /\ [][NextSequences]_vars

-----------------------------------------------------------------------------
(* Claims about the validator *)

SameNotes(a, b) ==
    /\ DOMAIN a = DOMAIN b
    /\ \A i \in DOMAIN a : a[i].validation = b[i].validation
                           /\ a[i].continuity = b[i].continuity

\* C1: the validator is idempotent: after a second validate() call every
\* stage's validation and continuity lists are as the first call left them.
C1_ValidateIdempotent == Len(runs) >= 2 => SameNotes(stages, first)

\* The (label, count) pairs of the records of a stage that report an atom
\* count, each read from the field its metadata class stores it in
ReportedCounts(s) ==
    (IF s.prmtop.has /\ Truthy(s.prmtop.natom)
        THEN << <<"prmtop", s.prmtop.natom.v>> >> ELSE <<>>)
    \o (IF s.inpcrd.has /\ s.inpcrd.natoms # 0
        THEN << <<"inpcrd", s.inpcrd.natoms>> >> ELSE <<>>)
    \o (IF s.mdout.has /\ s.mdout.natoms # 0
        THEN << <<"mdout", s.mdout.natoms>> >> ELSE <<>>)
    \o (IF s.mdcrd.has /\ s.mdcrd.n_atoms # 0
        THEN << <<"mdcrd", s.mdcrd.n_atoms>> >> ELSE <<>>)

AttachedCount(s) ==
    Cardinality({k \in {"prmtop", "inpcrd", "mdout", "mdcrd"} : s[k].has})

MismatchNotes(s) ==
    {i \in DOMAIN s.validation : s.validation[i].msg = "Atom count mismatch across"}

\* C2: after one validation, a stage whose attached records all report an atom
\* count either has equal counts or holds exactly one 'Atom count mismatch'
\* note, which names every reporting record and its count.
C2_AtomMismatchNoted ==
    Len(runs) = 1 =>
        \A i \in DOMAIN stages :
            LET s == stages[i]
                reported == ReportedCounts(s)
            IN  Len(reported) = AttachedCount(s) =>
                  \/ Cardinality(Range(Seconds(reported))) <= 1
                  \/ /\ Cardinality(MismatchNotes(s)) = 1
                     /\ \A k \in MismatchNotes(s) :
                          /\ s.validation[k].labels = Firsts(reported)
                          /\ s.validation[k].nums = Seconds(reported)

BothTimesKnown(prev, current) ==
    /\ prev.mdcrd.has /\ IsNum(prev.mdcrd.time_end)
    /\ current.inpcrd.has /\ IsNum(current.inpcrd.time)

\* max(1e-6, prev_dt * 1e-6) in units, prev_dt the previous trajectory's frame
\* interval (nothing when it is unknown), rounded down to a whole unit
ClaimedTolerance(prev) ==
    LET scaled == IF IsNum(prev.mdcrd.avg_dt) THEN prev.mdcrd.avg_dt.v \div 1000000 ELSE 0
    IN  IF scaled > 1 THEN scaled ELSE 1

\* C3: after one cross-stage validation, a stage B that follows a stage A with
\* A's end time and B's restart time both known has observed_gap_ps =
\* start_B - end_A, or 0 when B states no expected gap and |gap| <=
\* max(1e-6, prev_dt * 1e-6); every other stage (a time unknown, a record
\* missing, the first stage) has observed_gap_ps unset, as has every stage
\* when validation ran without the cross-stage part.
C3_ObservedGap ==
    Len(runs) = 1 =>
        \A i \in DOMAIN stages :
            IF runs[1] /\ i > 1 /\ BothTimesKnown(stages[i - 1], stages[i])
            THEN LET gap == stages[i].inpcrd.time.v - stages[i - 1].mdcrd.time_end.v
                     small == -ClaimedTolerance(stages[i - 1]) <= gap
                              /\ gap <= ClaimedTolerance(stages[i - 1])
                 IN  stages[i].observed_gap_ps =
                        Num(IF stages[i].expected_gap_ps = NoneV /\ small THEN 0 ELSE gap)
            ELSE stages[i].observed_gap_ps = NoneV

\* C3's case: a gap of 2e-6 ps after a trajectory of 2 ps frames has been
\* collapsed to 0, and a gap kept as it is stands on another protocol's stage
C3_Witness ==
    /\ runs = <<TRUE>>
    /\ Len(stages) = 2
    /\ stages[2].observed_gap_ps = Num(0)
    /\ stages[2].inpcrd.time = Num(EndTime + 2)
    /\ stages[1].mdcrd.time_end = Num(EndTime)

\* The two-stage scenario: the first trajectory ends at 1000.0 ps with frames
\* 0.5 ps apart, the second stage's restart says 1000.5 ps and no expected
\* gap is stated; one cross-stage validation has run.
FencepostScenario ==
    /\ runs = <<TRUE>>
    /\ Len(stages) = 2
    /\ stages[1].mdcrd.has
    /\ stages[1].mdcrd.time_end = Num(EndTime)
    /\ stages[1].mdcrd.avg_dt = Num(HalfPs)
    /\ stages[2].inpcrd.has
    /\ stages[2].inpcrd.time = Num(EndTime + HalfPs)
    /\ stages[2].expected_gap_ps = NoneV

ContinuityMsgs(s) == [i \in DOMAIN s.continuity |-> s.continuity[i].msg]

\* C4 as stated: in the scenario the second stage gets observed_gap_ps = 0.0
\* and no overlap note, no gap note and no 'Gap detected' note.
C4_FencepostCollapsed ==
    FencepostScenario =>
        /\ stages[2].observed_gap_ps = Num(0)
        /\ ContinuityMsgs(stages[2]) = <<>>

\* C4 as amended: in the scenario the gap of one frame interval is kept:
\* observed_gap_ps = 0.5 ps, with the note 'Stage starts 0.5 ps after previous
\* ended.' and then the note 'Gap detected without stated expectation'.
C4_FencepostKept ==
    FencepostScenario =>
        /\ stages[2].observed_gap_ps = Num(HalfPs)
        /\ ContinuityMsgs(stages[2]) =
             << "Stage starts after previous ended.",
                "Gap detected without stated expectation; verify continuity." >>
        /\ stages[2].continuity[1].nums = <<HalfPs>>

C4_Witness == FencepostScenario /\ stages[2].validation # <<>>

\* The end time of the stage's trajectory, the start time of its restart: there
\* when the record is there and carries a time
EndAvailable(prev) == prev.mdcrd.has /\ ~IsNone(prev.mdcrd.time_end)
StartAvailable(current) == current.inpcrd.has /\ ~IsNone(current.inpcrd.time)

\* The notes that say that continuity, or the expected gap, cannot be verified
CannotVerify ==
    { "INFO: Cannot verify continuity between (missing)",
      "Expected gap could not be verified because timing metadata is missing." }

\* C17: for consecutive stages where exactly one of the previous trajectory's
\* end time and the current restart's start time is available, because a
\* record is missing or because a present record carries no time, cross-stage
\* validation adds an informational note on the current stage saying that
\* continuity cannot be verified, whether or not expected_gap_ps is set.
C17_UnverifiableNoted ==
    TRUE \in Range(runs) =>
        \A i \in DOMAIN stages :
            (i > 1 /\ EndAvailable(stages[i - 1]) # StartAvailable(stages[i]))
                => \E k \in DOMAIN stages[i].continuity :
                       stages[i].continuity[k].msg \in CannotVerify

\* C17 where a record is missing
C17_MissingRecordNoted ==
    TRUE \in Range(runs) =>
        \A i \in DOMAIN stages :
            (i > 1 /\ EndAvailable(stages[i - 1]) # StartAvailable(stages[i])
                   /\ (~stages[i - 1].mdcrd.has \/ ~stages[i].inpcrd.has))
                => \E k \in DOMAIN stages[i].continuity :
                       stages[i].continuity[k].msg \in CannotVerify

-----------------------------------------------------------------------------
(* Claims about the assembler *)

\* A finished call that returned a protocol
BuildReturned == build.pc = "done" /\ build.raised = ""

\* The name of the i-th entry as written: its "name", or for a mapping without
\* one the key it stands under
EntryName(manifest, i) ==
    IF manifest.t = "dict" /\ manifest.items[i].entry.name.t = "none"
    THEN manifest.items[i].key
    ELSE manifest.items[i].entry.name.v

\* The path an entry gives for a kind: the top-level key when the entry has
\* it (a None there hides the key under `files`), else the key under `files`
EntryPath(entry, kind) ==
    IF \E i \in DOMAIN entry.top : entry.top[i].kind = kind
    THEN entry.top[CHOOSE i \in DOMAIN entry.top : entry.top[i].kind = kind].path
    ELSE IF \E i \in DOMAIN entry.files : entry.files[i].kind = kind
    THEN entry.files[CHOOSE i \in DOMAIN entry.files : entry.files[i].kind = kind].path
    ELSE NoPath

\* The role an entry has for the filters: the one it states, else the one its
\* input deck gives
EntryRole(entry, fs) ==
    IF HasRole(entry.stage_role) THEN entry.stage_role
    ELSE IF EntryPath(entry, "mdin").t = "str"
    THEN parse(fs, join(fs.directory, EntryPath(entry, "mdin").v)).stage_role
    ELSE NoRole

\* The entries that pass include_stems and include_roles, by position
PassingEntries(manifest, fs, args) ==
    SelectSeq([i \in DOMAIN manifest.items |-> i],
              LAMBDA i :
                /\ args.include_stems = {} \/ EntryName(manifest, i) \in args.include_stems
                /\ args.include_roles = {}
                   \/ (/\ HasRole(EntryRole(manifest.items[i].entry, fs))
                       /\ EntryRole(manifest.items[i].entry, fs).v \in args.include_roles))

StageNames == [i \in DOMAIN stages |-> stages[i].name]

\* The stems of the files of a directory that have a kind
ListedStems(fs) ==
    { with_suffix_empty(fs.listing[i].name) :
        i \in {k \in DOMAIN fs.listing : FileKind(fs.listing[k].name) # ""} }

\* C5: auto_discover preserves input order.  With a manifest, a list or a
\* mapping whose key becomes the name of an entry that has none, the stages
\* returned are the entries that pass the filters, in manifest order, whatever
\* their names; with directory discovery the stages returned are stems of the
\* directory in strictly ascending lexicographic order.
C5_OrderPreserved ==
    (BuildReturned /\ build.op = "auto_discover") =>
        IF build.args.manifest.t # "none"
        THEN StageNames =
               [k \in DOMAIN PassingEntries(build.args.manifest, build.fs, build.args) |->
                   EntryName(build.args.manifest,
                             PassingEntries(build.args.manifest, build.fs, build.args)[k])]
        ELSE /\ \A i \in DOMAIN stages : stages[i].name \in ListedStems(build.fs)
             /\ \A i, j \in DOMAIN stages : i < j => LexLess(stages[i].name, stages[j].name)

\* C5's case: a mapping whose second entry has no name of its own and whose
\* entries, both returned, stand in descending order of their names
C5_Witness ==
    /\ BuildReturned /\ build.op = "auto_discover"
    /\ build.args.manifest.t = "dict"
    /\ Len(stages) = 2
    /\ build.args.manifest.items[2].entry.name.t = "none"
    /\ stages[2].name = build.args.manifest.items[2].key
    /\ LexLess(stages[2].name, stages[1].name)

\* The manifest a finished call was given
HasManifest == build.pc = "done" /\ build.args.manifest.t # "none"

\* The references of a manifest to files that do not exist, as pairs of an
\* entry's position and a kind
MissingRefs(manifest, fs) ==
    { r \in (DOMAIN manifest.items) \X Range(ParserOrder) :
        /\ EntryPath(manifest.items[r[1]].entry, r[2]).t = "str"
        /\ ~exists(fs, join(fs.directory, EntryPath(manifest.items[r[1]].entry, r[2]).v)) }

\* C6: when a manifest whose entries all have names references files that do
\* not exist, building the protocol fails with one FileNotFoundError whose
\* message has one line "stage '<name>', <kind>: <path>" for every missing
\* reference of every entry; no parser has been called and no stage is returned.
C6_MissingFilesAggregated ==
    (/\ HasManifest
     /\ \A i \in DOMAIN build.args.manifest.items : EntryName(build.args.manifest, i) # <<>>
     /\ MissingRefs(build.args.manifest, build.fs) # {}) =>
        /\ build.raised = "FileNotFoundError"
        /\ Len(build.message) = Cardinality(MissingRefs(build.args.manifest, build.fs))
        /\ \A r \in MissingRefs(build.args.manifest, build.fs) :
             \E k \in DOMAIN build.message :
                build.message[k] =
                    MissingLine(EntryName(build.args.manifest, r[1]), r[2],
                                join(build.fs.directory,
                                     EntryPath(build.args.manifest.items[r[1]].entry, r[2]).v))
        /\ build.parsed = <<>>
        /\ stages = <<>>

\* C6's case: two entries of different names that each reference a missing file
C6_Witness ==
    /\ HasManifest
    /\ build.raised = "FileNotFoundError"
    /\ Len(build.message) >= 2
    /\ build.message[1].name # build.message[2].name

HasNote(s, msg) == \E k \in DOMAIN s.validation : s.validation[k].msg = msg

\* The note that continuity could not be verified for want of the stage's restart
MissingRestartNoted(s) ==
    \E k \in DOMAIN s.validation :
        /\ s.validation[k].msg = "INFO: Cannot verify continuity between (missing)"
        /\ "inpcrd" \in Range(s.validation[k].labels)
        /\ s.validation[k].names[2] = s.name

\* C7: in every path that builds a protocol with automatic restart detection
\* and cross-stage validation, the restarts are linked before continuity is
\* validated: a stage with an auto-detected restart does not carry the note
\* that continuity cannot be verified for want of its restart, and where the
\* end of the stage before it and the time of the restart are known its
\* observed_gap_ps is the gap between them.
C7_LinkedBeforeValidation ==
    (/\ BuildReturned
     /\ build.args.auto_detect_restarts
     /\ ~build.args.skip_cross_stage_validation) =>
        \A i \in DOMAIN stages :
            HasNote(stages[i], "INFO: restart file auto-detected") =>
                /\ ~MissingRestartNoted(stages[i])
                /\ (/\ i > 1
                    /\ stages[i - 1].mdcrd.has
                    /\ IsNum(stages[i - 1].mdcrd.time_end)
                    /\ IsNum(stages[i].inpcrd.time)) =>
                        stages[i].observed_gap_ps =
                            Num(ObservedGap(stages[i - 1], stages[i]))

\* C7 for the calls of auto_discover alone
C7_AutoDiscoverLinksFirst ==
    (build.pc = "done" /\ build.op = "auto_discover") => C7_LinkedBeforeValidation

\* A call of auto_discover that linked a restart to a stage after the first
C7_AutoDiscoverLinked ==
    /\ BuildReturned /\ build.op = "auto_discover"
    /\ build.args.auto_detect_restarts /\ ~build.args.skip_cross_stage_validation
    /\ \E i \in DOMAIN stages :
        /\ i > 1
        /\ HasNote(stages[i], "INFO: restart file auto-detected")
        /\ stages[i].observed_gap_ps = Num(HalfPs)

\* The closed set of roles
ClosedRoles == {"minimization", "heating", "equilibration", "production"}

\* C12: every stage of a protocol returned by auto_discover, by manifest or by
\* discovery, has no stage_role or one of 'minimization', 'heating',
\* 'equilibration', 'production', also when the role comes from the manifest
\* or from the stage_role of the input deck.
C12_RoleClosed ==
    (BuildReturned /\ build.op = "auto_discover") =>
        \A i \in DOMAIN stages :
            stages[i].stage_role.t = "none" \/ stages[i].stage_role.v \in ClosedRoles

\* The first of the roles that is one
FirstRole(roles) ==
    IF \A i \in DOMAIN roles : ~HasRole(roles[i]) THEN NoRole
    ELSE roles[CHOOSE i \in DOMAIN roles :
                 HasRole(roles[i]) /\ \A j \in 1..(i - 1) : ~HasRole(roles[j])]

\* The role the four layers give a stage in their order: the explicit role, the
\* stage_role of the stage's input deck, what the content gives, what the path
\* gives
LayeredRole(explicit, s) ==
    FirstRole(<<explicit,
                IF s.mdin.has THEN s.mdin.stage_role ELSE NoRole,
                infer_stage_role_from_content(s.mdin, s.mdout),
                infer_stage_role_from_path(s.name)>>)

\* A finished auto_discover that returned and was given no filter, so that
\* its stages are the entries of the manifest or the stems of the directory
Unfiltered ==
    /\ BuildReturned /\ build.op = "auto_discover"
    /\ build.args.include_roles = {} /\ build.args.include_stems = {}

\* C13: role inference applies four layers in a fixed priority, and the first
\* that yields a role wins: the first matching grouping rule or the manifest's
\* explicit stage_role, the stage_role of the input deck, the content, the
\* path; a later layer never overrides an earlier one and is consulted
\* whenever all earlier ones yield no role.
C13_LayersInOrder ==
    Unfiltered =>
        \A i \in DOMAIN stages :
            stages[i].stage_role =
                LayeredRole(IF build.args.manifest.t # "none"
                            THEN build.args.manifest.items[i].entry.stage_role
                            ELSE RuleRole(build.args.grouping_rules, stages[i].name),
                            stages[i])

\* C13 for directory discovery alone
C13_DiscoveryLayersInOrder ==
    (build.pc = "done" /\ build.args.manifest.t = "none") => C13_LayersInOrder

\* A finished auto_discover that returned and was asked to detect restarts
Detecting ==
    BuildReturned /\ build.op = "auto_discover" /\ build.args.auto_detect_restarts

\* The stage was given the restart that auto-detection chose for it
Detected(s) == HasNote(s, "INFO: restart file auto-detected")

\* The candidates that stage i may be given: those whose atom count does not
\* differ from the stage's
Eligible(i) ==
    { c \in Range(restart_candidates(build.fs)) : ~AtomsDiffer(stages[i], c) }

\* A stage that lacked a restart holds an eligible candidate of the highest
\* score when that score is at least 5, and none otherwise
HighestScoreLinked ==
    \A i \in DOMAIN stages :
        /\ Detected(stages[i]) =>
            \E c \in Eligible(i) :
                /\ c.path = stages[i].restart_path.v
                /\ CandidateScore(stages, i, c) >= 5
                /\ \A d \in Eligible(i) :
                    CandidateScore(stages, i, d) <= CandidateScore(stages, i, c)
        /\ ~HasText(stages[i].restart_path) =>
            \A c \in Eligible(i) : CandidateScore(stages, i, c) < 5

\* The directory holds the restarts "p01.rst7" and "p02.rst7" and no other
ExampleRestarts ==
    { c.path : c \in Range(restart_candidates(build.fs)) }
        = { join(Dir, RestartFile(P(k), NoneV).name) : k \in 1..2 }

\* Stage i is "p0k" and follows the stage "p0(k-1)" without a restart of its own
Follows(i, k) ==
    /\ i > 1 /\ stages[i].name = P(k) /\ stages[i - 1].name = P(k - 1)
    /\ (Detected(stages[i]) \/ ~HasText(stages[i].restart_path))

\* In the example every stage is linked to the restart of its predecessor, and
\* the first stage to none
ExampleLinked(i, k) ==
    /\ Detected(stages[i])
    /\ stages[i].restart_path = PathV(join(Dir, RestartFile(P(k - 1), NoneV).name))
    /\ ~HasText(stages[1].restart_path)

\* The times do not speak against the predecessor's restart: its time lies
\* within 0.1 ps of the end of the predecessor's trajectory, or no restart's does
TimesAgree(i, k) ==
    \/ \A c \in Range(restart_candidates(build.fs)) : TimeScore(stages[i - 1], c) = 0
    \/ \E c \in Range(restart_candidates(build.fs)) :
        /\ c.path = join(Dir, RestartFile(P(k - 1), NoneV).name)
        /\ TimeScore(stages[i - 1], c) > 0

\* C14: restart auto-detection assigns to each stage that lacks a restart the
\* candidate with the highest score, and only when that score is at least 5
\* (previous-stage name +5, numeric predecessor +10, same number +3, end time
\* within 0.1 ps +20); for stages p01, p02, p03 and a directory with p01.rst7
\* and p02.rst7, p02 is linked to p01.rst7, p03 to p02.rst7 and p01 to none.
C14_PredecessorLinked ==
    Detecting =>
        /\ HighestScoreLinked
        /\ ExampleRestarts =>
            \A i \in DOMAIN stages : \A k \in 2..3 : Follows(i, k) => ExampleLinked(i, k)

\* C14 as the code has it: the example holds when the times do not speak
\* against the predecessor's restart, since a time within 0.1 ps of the end of
\* the previous trajectory (+20) outweighs the name and the number (+15).
C14_HighestScoreLinked ==
    Detecting =>
        /\ HighestScoreLinked
        /\ ExampleRestarts =>
            \A i \in DOMAIN stages : \A k \in 2..3 :
                (Follows(i, k) /\ TimesAgree(i, k)) => ExampleLinked(i, k)

\* The example happened, with a time on the restart of the stage itself: "p02"
\* was linked to "p01.rst7" although "p02.rst7" scored as well, and "p01" to none
C14_Witness ==
    /\ Detecting /\ ExampleRestarts
    /\ \E i \in DOMAIN stages :
        /\ Follows(i, 2) /\ TimesAgree(i, 2) /\ ExampleLinked(i, 2)
        /\ \E c \in Eligible(i) :
            /\ c.path # stages[i].restart_path.v
            /\ CandidateScore(stages, i, c) >= 5

\* The topology file the i-th stage of an unfiltered auto_discover came with:
\* the one its manifest entry names, or in discovery the one of its stem
OwnTopology(i) ==
    IF build.args.manifest.t # "none"
    THEN LET entry == build.args.manifest.items[i].entry
             refs == SelectSeq(entry.top \o entry.files,
                               LAMBDA r : r.kind = "prmtop" /\ HasText(r.path))
         IN  IF refs = <<>> THEN NoPath ELSE PathV(join(build.fs.directory, refs[Len(refs)].path.v))
    ELSE IF exists(build.fs, join(build.fs.directory, TopologyFile(stages[i].name, 0).name))
         THEN PathV(join(build.fs.directory, TopologyFile(stages[i].name, 0).name))
         ELSE NoPath

\* The record of the topology named, when it was named and exists
Given(path) ==
    IF HasText(path) /\ exists(build.fs, join(build.fs.directory, path.v))
    THEN parse(build.fs, join(build.fs.directory, path.v))
    ELSE NewStage(<<>>).prmtop

StageDt(s) ==
    IF s.mdin.has /\ IsNum(s.mdin.dt) THEN s.mdin.dt
    ELSE IF s.mdout.has THEN Num(s.mdout.dt) ELSE NoneV

\* C16: when an HMR topology is provided, every stage that has no topology of
\* its own and whose timestep dt (from its parsed input deck, else its log) is
\* at least 0.004 ps ends up holding the HMR topology record, and no stage with
\* dt below 0.004 ps receives it; in manifest mode and in discovery alike.
C16_HmrAttached ==
    (Unfiltered /\ Given(build.args.hmr_prmtop).has) =>
        \A i \in DOMAIN stages :
            /\ (~HasText(OwnTopology(i)) /\ IsNum(StageDt(stages[i]))
                /\ StageDt(stages[i]).v >= HmrDt)
                    => stages[i].prmtop = Given(build.args.hmr_prmtop)
            /\ (IsNum(StageDt(stages[i])) /\ StageDt(stages[i]).v < HmrDt)
                    => stages[i].prmtop # Given(build.args.hmr_prmtop)

\* C16 in directory discovery alone
C16_HmrAttachedInDiscovery ==
    (build.pc = "done" /\ build.args.manifest.t = "none") => C16_HmrAttached

\* C16 in manifest mode alone
C16_HmrAttachedByManifest ==
    (build.pc = "done" /\ build.args.manifest.t # "none") => C16_HmrAttached

\* The `gaps` of the entry the i-th stage of an unfiltered auto_discover by
\* manifest was made from
GapsOf(i) == build.args.manifest.items[i].entry.gaps

\* The stage has the expected gap and the tolerance its entry states, for the
\* numbers in `allowed`
GapsTaken(i, allowed) ==
    /\ (GapsOf(i).t = "num" /\ GapsOf(i).v \in allowed)
            => stages[i].expected_gap_ps = Num(GapsOf(i).v)
    /\ (GapsOf(i).t = "dict" /\ IsNum(GapsOf(i).expected) /\ GapsOf(i).expected.v \in allowed)
            => stages[i].expected_gap_ps = GapsOf(i).expected
    /\ (GapsOf(i).t = "dict" /\ IsNum(GapsOf(i).tolerance) /\ GapsOf(i).tolerance.v \in allowed)
            => stages[i].gap_tolerance_ps = GapsOf(i).tolerance

\* C18: for every manifest entry whose 'gaps' value is a number n, or a record
\* with expected = n and tolerance = t, the resulting stage has
\* expected_gap_ps = n (and gap_tolerance_ps = t), for every numeric n and t
\* including 0; an explicit expected gap of 0 is never treated as if no
\* expectation had been given.
C18_StatedGapsTaken ==
    (Unfiltered /\ build.args.manifest.t # "none") =>
        \A i \in DOMAIN stages :
            /\ GapsTaken(i, 0..(2 * PS))
            /\ (GapsOf(i).t = "num" \/ (GapsOf(i).t = "dict" /\ IsNum(GapsOf(i).expected)))
                    => \A k \in DOMAIN stages[i].continuity :
                           stages[i].continuity[k].msg #
                               "Gap detected without stated expectation; verify continuity."

\* C18 for the numbers other than 0
C18_NonzeroGapsTaken ==
    (Unfiltered /\ build.args.manifest.t # "none") =>
        \A i \in DOMAIN stages : GapsTaken(i, 1..(2 * PS))

\* A finished auto_discover that returned and was given a filter
Filtering ==
    /\ BuildReturned /\ build.op = "auto_discover"
    /\ (build.args.include_roles # {} \/ build.args.include_stems # {})

\* The stages the same call makes when it is given no filter
Unfiltered_stages ==
    auto_discover(build.fs, [build.args EXCEPT !.include_roles = {},
                                                !.include_stems = {}]).stages

NameAndRole(ss) == [i \in DOMAIN ss |-> <<ss[i].name, ss[i].stage_role>>]

\* The (name, role) pair satisfies both filters
Satisfies(pair) ==
    /\ build.args.include_stems = {} \/ pair[1] \in build.args.include_stems
    /\ build.args.include_roles = {}
       \/ (HasRole(pair[2]) /\ pair[2].v \in build.args.include_roles)

\* C19: filtering: when include_roles is non-empty every stage of the returned
\* protocol has a role that is a member of include_roles and stages without a
\* role are excluded; when include_stems is non-empty every returned stage's
\* name is a member of include_stems; no stage that satisfies both filters is
\* dropped.
C19_FiltersApplied ==
    Filtering =>
        /\ \A i \in DOMAIN stages : Satisfies(NameAndRole(stages)[i])
        /\ NameAndRole(stages) = SelectSeq(NameAndRole(Unfiltered_stages), Satisfies)

\* Both filters were given; a stage was returned, and a stage whose name is in
\* include_stems was dropped for having no role
C19_Witness ==
    /\ Filtering
    /\ build.args.include_roles # {} /\ build.args.include_stems # {}
    /\ stages # <<>>
    /\ \E pair \in Range(NameAndRole(Unfiltered_stages)) :
        pair[1] \in build.args.include_stems /\ ~HasRole(pair[2])

-----------------------------------------------------------------------------
(* Claims about the totals *)

RECURSIVE NumericTotals(_)
NumericTotals(ss) ==
    IF ss = <<>> THEN [steps |-> 0, time_ps |-> 0]
    ELSE LET s == Head(ss)
             both == s.mdin.has /\ IsNum(s.mdin.length_steps) /\ IsNum(s.mdin.dt)
             rest == NumericTotals(Tail(ss))
         IN  [steps |-> rest.steps + (IF both THEN s.mdin.length_steps.v ELSE 0),
              time_ps |-> rest.time_ps
                          + (IF both THEN s.mdin.length_steps.v * s.mdin.dt.v ELSE 0)]

\* C9: a stage adds to the totals if and only if both its step count and its
\* timestep are numeric: with a numeric step count and an absent or
\* non-numeric timestep it adds nothing to steps and nothing to time_ps.
C9_TotalsOnlyNumeric == tot.done => tot.whole = NumericTotals(stages)

-----------------------------------------------------------------------------
(* Claims about the serializer *)

\* The kinds of object _serialize_value walks into
WalkedKinds == {"list", "dict", "dataclass", "object"}

\* C10: full-view serialization terminates for every value graph, cycles
\* through lists, dicts, dataclass instances, objects with to_dict and plain
\* objects included: the call returns, it does not raise or recurse without
\* bound, and when the walk runs into a value it is walking the result holds
\* "<circular reference>".
C10_WalkTerminates ==
    ser.pc = "done" =>
        /\ ser.raised = ""
        /\ OnCycle(ser.heap, 1, WalkedKinds) => ser.circular > 0

\* C10 for the value graphs without a dataclass instance
C10_PlainCyclesMarked ==
    (/\ ser.pc = "done"
     /\ \A n \in DOMAIN ser.heap : ser.heap[n].kind # "dataclass") => C10_WalkTerminates

\* A list that holds itself, serialized
C10_PlainCycle ==
    /\ ser.pc = "done"
    /\ ser.heap[1] = [kind |-> "list", kids |-> <<1>>]
    /\ ser.circular = 1

-----------------------------------------------------------------------------
(* Claims about the methods view *)

IsContainer(value) == value.t \in {"dict", "list"}

\* None, an empty mapping or an empty list
IsEmpty(value) == value.t = "none" \/ (IsContainer(value) /\ value.items = <<>>)

\* Pruning as C11 words it: of a dict or list the entries whose value is None,
\* an empty dict or an empty list go, every other entry stays at its position,
\* its value pruned in the same way
RECURSIVE EmptyEntriesRemoved(_)
EmptyEntriesRemoved(value) ==
    IF IsContainer(value)
    THEN Container(value.t,
            [i \in DOMAIN SelectSeq(value.items, LAMBDA e : ~IsEmpty(e.val)) |->
                Keyed(SelectSeq(value.items, LAMBDA e : ~IsEmpty(e.val))[i].key,
                      EmptyEntriesRemoved(
                          SelectSeq(value.items, LAMBDA e : ~IsEmpty(e.val))[i].val))])
    ELSE value

\* A value that holds a scalar other than None, at any depth
RECURSIVE HoldsScalar(_)
HoldsScalar(value) ==
    IF IsContainer(value)
    THEN \E i \in DOMAIN value.items : HoldsScalar(value.items[i].val)
    ELSE value.t # "none"

\* The scalars other than None of a value, in order, each with the keys that
\* lead to it
RECURSIVE Scalars(_, _)
RECURSIVE ScalarsOfItems(_, _)
ScalarsOfItems(items, path) ==
    IF items = <<>> THEN <<>>
    ELSE Scalars(Head(items).val, Append(path, Head(items).key))
         \o ScalarsOfItems(Tail(items), path)

Scalars(value, path) ==
    IF IsContainer(value) THEN ScalarsOfItems(value.items, path)
    ELSE IF value.t = "none" THEN <<>>
    ELSE <<[path |-> path, t |-> value.t, v |-> value.v]>>

\* No None, empty dict or empty list below the top of a value
RECURSIVE NothingEmptyBelow(_)
NothingEmptyBelow(value) ==
    \A i \in DOMAIN value.items :
        /\ ~IsEmpty(value.items[i].val)
        /\ NothingEmptyBelow(value.items[i].val)

\* C11 as stated: only the entries whose value is None, an empty mapping or an
\* empty list are removed from nested mappings and lists; every other value is
\* kept at its position.
C11_OnlyEmptyRemoved ==
    ser.pc = "done" => ser.out = EmptyEntriesRemoved(ser.value)

\* C11, amended: pruning removes from nested mappings and lists exactly the
\* entries whose value holds no scalar other than None at any depth (None, an
\* empty mapping or list, and a mapping or list of nothing but such values);
\* every scalar other than None, the boolean false, the integer 0 and the
\* empty string included, is kept under its keys and in its order, and what is
\* returned holds no None and no empty mapping or list below its top.
C11_EmptiedRemoved ==
    ser.pc = "done" =>
        /\ ser.out.t = ser.value.t
        /\ Scalars(ser.out, <<>>) = Scalars(ser.value, <<>>)
        /\ NothingEmptyBelow(ser.out)
        /\ IsContainer(ser.value) =>
              [i \in DOMAIN ser.out.items |-> ser.out.items[i].key]
              = [i \in DOMAIN SelectSeq(ser.value.items, LAMBDA e : HoldsScalar(e.val)) |->
                    SelectSeq(ser.value.items, LAMBDA e : HoldsScalar(e.val))[i].key]

\* C11's case: a mapping with a list of nothing but None, which goes, and the
\* boolean false, which stays
C11_Witness ==
    /\ ser.pc = "done"
    /\ ser.value = Container("dict",
                             <<Keyed(1, Container("list", <<Keyed(0, Leaf("none", ""))>>)),
                               Keyed(2, Leaf("bool", "False"))>>)
    /\ ser.out = Container("dict", <<Keyed(2, Leaf("bool", "False"))>>)
-----------------------------------------------------------------------------
(* Claims about the streaming statistics *)

RECURSIVE Sum(_)
Sum(xs) == IF xs = <<>> THEN 0 ELSE Head(xs) + Sum(Tail(xs))

Squares(xs) == [i \in DOMAIN xs |-> xs[i] * xs[i]]

\* mean is the arithmetic mean of the samples: count * mean is their sum
MeanIsExact == stats.count * stats.mean = Sum(stats.added)

\* m2 is the sum of the squared deviations from the arithmetic mean, which is
\* (count * (sum of squares) - (sum)^2) / count
M2IsExact ==
    stats.count * stats.m2 * Quantum =
        stats.count * Sum(Squares(stats.added)) - Sum(stats.added) * Sum(stats.added)

\* What holds with no sample and with one sample
FewSamples ==
    /\ stats.count = Len(stats.added)
    /\ stats.count = 0 =>
        stats.mean = 0 /\ stats.m2 = 0 /\ get_stats(stats) = <<NoneV, NoneV>>
    /\ stats.count = 1 =>
        /\ stats.mean = stats.added[1] /\ stats.m2 = 0 /\ stdev(stats) = 0
        /\ get_stats(stats) = <<Num(stats.added[1]), Num(0)>>

\* C20: StreamingStats implements Welford's update exactly: after any sequence
\* of k >= 0 add calls, count = k, mean equals the arithmetic mean of the
\* samples and M2 equals the sum of squared deviations from that mean; hence
\* with no samples count = 0 and mean = M2 = 0 (get_stats reports no value),
\* and with one sample M2 = 0 and stdev = 0.
C20_WelfordExact ==
    /\ FewSamples
    /\ stats.count > 0 => (MeanIsExact /\ M2IsExact)

\* C20 for floats: count = k always; mean and M2 equal the arithmetic mean and
\* the sum of squared deviations whenever no operation of the updates had to
\* round, and otherwise differ from them by rounding, the mean staying within
\* the range of the samples and M2 not negative.
C20_WelfordUpToRounding ==
    /\ FewSamples
    /\ stats.count > 0 =>
        /\ stats.exact => (MeanIsExact /\ M2IsExact)
        /\ \E lo, hi \in Range(stats.added) : lo <= stats.mean /\ stats.mean <= hi
        /\ stats.m2 >= 0

\* Several different samples were added without rounding
C20_Witness ==
    /\ stats.count = MaxSamples /\ stats.exact /\ stats.m2 > 0
    /\ Cardinality(Range(stats.added)) > 1

\* Samples were added and an update rounded
C20_Rounded == stats.count > 1 /\ ~stats.exact /\ ~MeanIsExact

-----------------------------------------------------------------------------
(* Claims about the log parser *)

\* Whether line j is read in a summary section: a header stands on it or
\* before it, with no clearing title from that header up to the line before j
InSummaryAt(lines, j) ==
    \E h \in 1..j : lines[h].header /\ \A c \in h..(j - 1) : ~lines[c].clearing

\* The anchor lines among the lines read that were read outside a summary
FrameLines == { j \in 1..(log.i - 1) : log.lines[j].anchor /\ ~InSummaryAt(log.lines, j) }

\* A frame is counted for exactly the anchor lines read outside a summary, and
\* the flag is set by a header and cleared by a clearing title
FramesCounted ==
    /\ log.count = Cardinality(FrameLines)
    /\ log.in_summary_section =
        \E h \in 1..(log.i - 1) :
            log.lines[h].header /\ \A c \in h..(log.i - 1) : ~log.lines[c].clearing

\* C21: the log parser counts a frame record exactly for each line that
\* contains both 'NSTEP =' and 'TIME(PS)' and is read while in_summary_section
\* is false; the flag becomes true at a summary header and false again at a
\* clearing title, so for any sequence of lines no anchor line lying between a
\* summary header and the next clearing line is ever added to the statistics.
C21_SummaryNeverAdded ==
    log.pc # "idle" =>
        /\ FramesCounted
        /\ \A k \in DOMAIN log.temps :
            ~(log.lines[log.temps[k].line].anchor
              /\ InSummaryAt(log.lines, log.temps[k].line))

\* C21 without its conclusion: the frames counted and the flag
C21_FramesCounted == log.pc # "idle" => FramesCounted

\* A log was read to its end in which a frame was counted, a summary was
\* entered and left, and an anchor line inside the summary was passed over
C21_Skipped ==
    /\ log.pc = "done" /\ log.count > 0 /\ ~log.in_summary_section
    /\ \E j \in DOMAIN log.lines : log.lines[j].anchor /\ InSummaryAt(log.lines, j)

-----------------------------------------------------------------------------
(* Claims about the restart parser *)

\* The flags (coordinates, velocities, box) of the record returned
ContentFlags == <<ser.out.has_coordinates, ser.out.has_velocities, ser.out.has_box>>

\* An ASCII restart with NATOM >= 1 was parsed as such; b is the number of its
\* body lines and L the lines of one structure
AsciiParsed ==
    /\ ser.pc = "done" /\ ser.out.file_format = "Formatted ASCII"
    /\ ser.file.lines >= 2 /\ ser.file.second.t = "num" /\ ser.file.second.v >= 1

BodyLines == ser.file.lines - 2
StructureLines == lines_per_structure(ser.file.second.v)

\* The flags the claim gives for the four line counts
FlagsByLines ==
    /\ BodyLines = StructureLines => ContentFlags = <<TRUE, FALSE, FALSE>>
    /\ BodyLines = StructureLines + 1 => ContentFlags = <<TRUE, FALSE, TRUE>>
    /\ BodyLines = 2 * StructureLines => ContentFlags = <<TRUE, TRUE, FALSE>>
    /\ BodyLines = 2 * StructureLines + 1 => ContentFlags = <<TRUE, TRUE, TRUE>>

\* C22: for an ASCII restart with natom atoms and L = ceil(3*natom/6), the
\* number b of body lines determines the content flags for every natom >= 1:
\* b = L coordinates only, b = L+1 coordinates and box, b = 2L coordinates and
\* velocities without box, b = 2L+1 coordinates, velocities and box.
C22_FlagsByLineCount == AsciiParsed => FlagsByLines

\* C22 as the code has it: the four cases hold for natom >= 3, where L >= 2;
\* for natom = 1 and 2, L + 1 = 2L = 2 and two body lines are read as
\* coordinates and velocities without box.
C22_FlagsWhereDistinct ==
    AsciiParsed =>
        /\ StructureLines >= 2 => FlagsByLines
        /\ StructureLines = 1 =>
            /\ BodyLines = 1 => ContentFlags = <<TRUE, FALSE, FALSE>>
            /\ BodyLines = 2 => ContentFlags = <<TRUE, TRUE, FALSE>>
            /\ BodyLines = 3 => ContentFlags = <<TRUE, TRUE, TRUE>>

\* A restart of at least three atoms with coordinates and a box was parsed
C22_Witness ==
    /\ AsciiParsed /\ StructureLines >= 2 /\ BodyLines = StructureLines + 1
    /\ ContentFlags = <<TRUE, FALSE, TRUE>>

\* C23: the restart parser classifies a file as NetCDF exactly when its first
\* four bytes are 'C', 'D', 'F', 0x01 and as ASCII for every other content,
\* including a zero-byte file, for which it returns an ASCII record with at
\* least one warning and raises nothing.
C23_NetcdfByFourBytes ==
    ser.pc = "done" =>
        /\ (ser.out.file_format = "NetCDF") = (ser.file.head = <<67, 68, 70, 1>>)
        /\ (ser.out.file_format = "Formatted ASCII") = (ser.file.head # <<67, 68, 70, 1>>)
        /\ ser.file.head = <<>> => ser.out.warnings >= 1

\* C23 for the file of no bytes and for the files that do not start with CDF
C23_OthersAscii ==
    ser.pc = "done" =>
        /\ ser.file.head = <<67, 68, 70, 1>> => ser.out.file_format = "NetCDF"
        /\ (Len(ser.file.head) < 3 \/ SubSeq(ser.file.head, 1, 3) # <<67, 68, 70>>)
               => ser.out.file_format = "Formatted ASCII"
        /\ ser.file.head = <<>> => ser.out.warnings >= 1

-----------------------------------------------------------------------------
(* Claims about the input-deck parser *)

\* The deck parsed holds the placeholder p as the value of k, alone or with
\* something after it
Written(p) == \E f \in Followers : ser.file = Deck(p \o f)

\* What the parser stored for k: a string that is the text s
Stored(s) == <<107>> \in DOMAIN ser.out /\ ser.out[<<107>>] = Str(s)

\* C24: the input-deck parser stores every namelist value that is a shell
\* placeholder ${VAR} or $(cmd) as a string identical, byte for byte, to the
\* token written in the file, for every placeholder text (a command holding
\* '/', '#', '!' or blanks, a placeholder followed by further characters or by
\* another placeholder), and never converts or truncates it.  Checked in its
\* weakest reading: what is stored begins with the whole placeholder.
C24_PlaceholderVerbatim ==
    ser.pc = "done" =>
        \A p \in Placeholders :
            Written(p) =>
                /\ <<107>> \in DOMAIN ser.out /\ ser.out[<<107>>].t = "str"
                /\ Len(ser.out[<<107>>].v) >= Len(p)
                /\ SubSeq(ser.out[<<107>>].v, 1, Len(p)) = p

\* C24 for the placeholders whose text holds none of '/', '#' and '!': the
\* placeholder is stored byte for byte, and what follows it is dropped
C24_PlainPlaceholderVerbatim ==
    ser.pc = "done" =>
        \A p \in Placeholders :
            Written(p) /\ Range(p) \cap {47, 35, 33} = {} => Stored(p)

-----------------------------------------------------------------------------
(* Claims about the topology parser *)

\* The POINTERS block of the file parsed is truncated
TruncatedPointers == Len(ser.file.POINTERS) \in 1..12

\* An unreadable cell is among the four that the box is read from
UnreadableBox ==
    /\ Len(ser.file.BOX_DIMENSIONS) >= 4
    /\ \E i \in 1..4 : ser.file.BOX_DIMENSIONS[i] = NoneV

\* C25: the topology parser never raises for a recoverable decoding issue:
\* for a readable file whose POINTERS block is truncated (fewer than 13
\* values) or whose BOX_DIMENSIONS block holds an unparseable cell,
\* extract_prmtop_metadata still returns a record with the fields it could
\* decode instead of propagating an exception.
C25_NeverRaises ==
    ser.pc = "done" /\ (TruncatedPointers \/ UnreadableBox) => ser.out.raised = ""

\* C25 as the code has it: an exception leaves the function exactly for the
\* truncated POINTERS blocks that are not empty and for an unreadable cell
\* among the first four of BOX_DIMENSIONS
C25_RaisesForThese ==
    ser.pc = "done" => (ser.out.raised # "" <=> (TruncatedPointers \/ UnreadableBox))

-----------------------------------------------------------------------------
(* Claims about the grouping of a listing *)

\* The listings that hold the files of ser.file.listing in another order
Reordered ==
    { q \in Arrangements(Range(ser.file.listing), Len(ser.file.listing)) :
        Len(q) = Len(ser.file.listing) }

\* The candidates of a stem and a kind: the full paths of the listed files of
\* that stem and kind
SameKind(stem, kind) ==
    { join(Dir, f.name) : f \in { g \in Range(ser.file.listing) :
                                    /\ with_suffix_empty(g.name) = stem
                                    /\ FileKind(g.name) = kind } }

\* C26: directory discovery keeps at most one file per kind per stem and
\* chooses it deterministically: when two files of one kind share a stem, the
\* file kept is decided by the lexical order of the full paths and is the same
\* for every order in which the listing enumerates the files.
C26_SameForEveryOrder ==
    ser.pc = "done" =>
        \A q \in Reordered :
            smart_group_files([directory |-> Dir, listing |-> q]) = ser.out

\* C26 as the code has it: one file per stem and kind is kept, one of the
\* candidates, and it is the one the listing enumerates last
C26_LastListedKept ==
    ser.pc = "done" =>
        \A at \in DOMAIN ser.out :
            /\ SameKind(at[1], at[2]) = {} => ser.out[at] = NoPath
            /\ SameKind(at[1], at[2]) # {} =>
                \E i \in DOMAIN ser.file.listing :
                    /\ ser.out[at] = PathV(join(Dir, ser.file.listing[i].name))
                    /\ join(Dir, ser.file.listing[i].name) \in SameKind(at[1], at[2])
                    /\ \A j \in DOMAIN ser.file.listing :
                        join(Dir, ser.file.listing[j].name) \in SameKind(at[1], at[2])
                            => j <= i

-----------------------------------------------------------------------------
(* Claims about the sequence detection *)

\* The number the rules read in a name, and whether a rule matches it
NumberOf(filename) == SequenceKey(filename).num
Matches(filename) == SequenceKey(filename).rule # ""

\* The names of the list that are in the group of `filename`
GroupOf(filename) ==
    { g \in Range(ser.file) :
        /\ SequenceKey(g).rule = SequenceKey(filename).rule
        /\ SequenceKey(g).base = SequenceKey(filename).base }

\* C27: detect_numeric_sequences returns only sequences of at least two
\* members, each ordered by non-decreasing numeric value, and every stem that
\* matches the suffix rule (tried first) or the prefix rule and whose group has
\* at least two members appears in exactly one returned sequence.
C27_EveryGroupReturned ==
    ser.pc = "done" =>
        /\ \A s \in ser.out :
            /\ Len(s.members) >= 2
            /\ \A p \in 1..(Len(s.members) - 1) :
                 NumberOf(s.members[p]) <= NumberOf(s.members[p + 1])
        /\ \A f \in Range(ser.file) :
            Matches(f) /\ Cardinality(GroupOf(f)) >= 2 =>
                Cardinality({ s \in ser.out : f \in Range(s.members) }) = 1

\* C27 without the groups lost: the sequences returned have two members or
\* more in numeric order, and no name is in two of them
C27_SequencesOrdered ==
    ser.pc = "done" =>
        /\ \A s \in ser.out :
            /\ Len(s.members) >= 2
            /\ \A p \in 1..(Len(s.members) - 1) :
                 NumberOf(s.members[p]) <= NumberOf(s.members[p + 1])
        /\ \A f \in Range(ser.file) :
            Cardinality({ s \in ser.out : f \in Range(s.members) }) <= 1

-----------------------------------------------------------------------------
(* Claims about the builder *)

\* ProtocolBuilder.build() returned a protocol
BuilderBuilt == build.pc = "done" /\ build.op = "build" /\ build.raised = ""

\* The notes the per-stage validation of a stage gives
PerStageNotes(s) == StageValidate([s EXCEPT !.validation = <<>>]).validation

\* How often a note is in a list
Occurrences(note, notes) == Cardinality({ k \in DOMAIN notes : notes[k] = note })

\* C28: ProtocolBuilder.build() runs the per-stage validation exactly once for
\* every stage: for a protocol built from a directory with cross-stage
\* validation enabled (the default), each per-stage note occurs exactly once
\* in the stage's validation list, the same as in the result of auto_discover
\* with the same options.
C28_ValidatedOnce ==
    BuilderBuilt /\ ~build.args.args.skip_cross_stage_validation =>
        /\ \A i \in DOMAIN stages :
            \A note \in Range(PerStageNotes(stages[i])) :
                Occurrences(note, stages[i].validation) = 1
        /\ build.args._stage_tolerances = <<>> =>
            \A i \in DOMAIN stages :
                stages[i].validation = auto_discover(build.fs, build.args.args).stages[i].validation

\* C28 as the code has it: with cross-stage validation enabled each per-stage
\* note is in the list twice, with skip_validation() once
C28_ValidatedTwice ==
    BuilderBuilt =>
        \A i \in DOMAIN stages :
            \A note \in Range(PerStageNotes(stages[i])) :
                Occurrences(note, stages[i].validation)
                    = IF build.args.args.skip_cross_stage_validation THEN 1 ELSE 2

-----------------------------------------------------------------------------
(* Claims about the TUI's ProtocolState *)

\* The snapshots of both stacks
Snapshots == Range(tui.self._undo_stack) \cup Range(tui.self._redo_stack)

\* C29: undo() right after a mutating operation (add_stage, remove_stage,
\* update_stage or move_stage with valid indices, set_global_prmtop,
\* create_stage_from_stem, create_stages_from_sequence) restores stages and
\* global_prmtop to the values before the operation, a following redo()
\* restores the values right after it, and no later change of a live stage
\* changes a saved snapshot.
C29_UndoRedoRoundTrip ==
    /\ tui.phase = "undone" => View(tui.self) = tui.before
    /\ tui.phase = "redone" => View(tui.self) = tui.after
    /\ \A s \in Snapshots :
        /\ Values(tui.self, s.stages) = s.taken.stages
        /\ s.global_prmtop = s.taken.global_prmtop

\* An operation that changed a protocol with a stage was undone and redone,
\* and the snapshot of the state before it is on the undo stack again
C29_Witness ==
    /\ tui.phase = "redone" /\ tui.before # tui.after
    /\ tui.before.stages # <<>>
    /\ tui.self._undo_stack # <<>> /\ Top(tui.self._undo_stack).taken = tui.before

\* C30: after any sequence of mutating operations, undo() and redo() calls,
\* len(undo stack) + len(redo stack) <= _max_undo; every mutating operation
\* leaves the redo stack empty; an operation given an out-of-range index
\* changes neither the stages nor either stack.
C30_HistoryBounded ==
    /\ Len(tui.self._undo_stack) + Len(tui.self._redo_stack) <= _max_undo
    /\ tui.op \in Mutating /\ tui.acted => tui.self._redo_stack = <<>>
    /\ tui.op \in {"remove_stage", "update_stage", "move_stage"} /\ ~tui.acted
           => tui.self = tui.prior

\* The undo stack is at its limit after a redo
C30_Witness ==
    /\ tui.op = "redo" /\ tui.acted
    /\ Len(tui.self._undo_stack) = _max_undo


=============================================================================
